---- MODULE Spec2Model ----
(***************************************************************************)
(* The adaptive learning engine of the traffic-sign trainer: the SM-2      *)
(* retention model of src/js/learning/sm2.js.                              *)
(*                                                                         *)
(* JavaScript numbers that are not integers (easeFactor,                   *)
(* averageResponseTime, timeFactor, the retention-score terms) are         *)
(* modelled as exact rationals [n, d] in lowest terms, so every            *)
(* comparison and every Math.round is decided on the exact value of the    *)
(* expression the code writes.  Dates are whole days on the clock `now`.   *)
(*                                                                         *)
(* The second half of the module is the quiz engine of                     *)
(* src/unnamed/part_001 (quiz-engine.js and question-types.js), the        *)
(* session fields of src/js/state.js and the store helpers of              *)
(* src/js/ui/dashboard.js: the selection of the session's signs in the     *)
(* five quiz modes and the session from startQuiz to finishQuiz.           *)
(***************************************************************************)
EXTENDS Integers, Sequences, FiniteSets, TLC

VARIABLES
    signProgress,   \* the SIGN_PROGRESS store: signId -> stored progress record
    now,            \* the clock (new Date()), in days
    callCount,      \* history: completed updateWithSM2 calls per sign
    correctCount,   \* history: those of them with isCorrect = true
    probe,          \* one call of a pure function: its arguments and result
    state,          \* the `state` object of state.js (settings and session fields)
    currentQuestion,\* quiz-engine's module variable: the question on display
    quizSessions,   \* the QUIZ_SESSIONS store, in key (autoIncrement) order
    categoryStats,  \* the CATEGORY_STATS store: categoryKey -> stats record
    lastCall,       \* the last engine call and what it returned
    flow            \* the page: suspended handlers, the quiz screen's controls

quizVars == <<state, currentQuestion, quizSessions, categoryStats, lastCall>>

vars == <<signProgress, now, callCount, correctCount, probe,
          state, currentQuestion, quizSessions, categoryStats, lastCall, flow>>

(***************************************************************************)
(* Bounds of the model: updateWithSM2 calls per sign, the last day of the  *)
(* clock, and the grids the pure functions are probed on (times 0, 500,    *)
(* .., 500 * MaxTimeStep ms; ease factors 1.00, 1.05, .., MaxProbeEF / 20; *)
(* intervals, repetitions and totalAttempts from 0).                       *)
(***************************************************************************)
MaxAttempts == 5
MaxDay == 1
MaxTimeStep == 12
MaxProbeEF == 60
MaxProbeInterval == 8
MaxProbeReps == 6
MaxProbeTotal == 5

SignIds == {"A1"}
ResponseTimes == {0, 1000, 2000, 5000}

(***************************************************************************)
(* Number arithmetic on exact rationals.                                   *)
(***************************************************************************)
RECURSIVE GCD(_, _)
GCD(a, b) == IF b = 0 THEN a ELSE GCD(b, a % b)

Abs(x) == IF x < 0 THEN -x ELSE x

\* n / d in lowest terms with a positive denominator (d # 0)
Rat(n, d) ==
    LET g == GCD(Abs(n), Abs(d))
        s == IF d < 0 THEN -1 ELSE 1
    IN  [n |-> s * (n \div g), d |-> s * (d \div g)]

RInt(k) == [n |-> k, d |-> 1]
RAdd(x, y) == Rat(x.n * y.d + y.n * x.d, x.d * y.d)
RSub(x, y) == Rat(x.n * y.d - y.n * x.d, x.d * y.d)
RMul(x, y) == Rat(x.n * y.n, x.d * y.d)
RDiv(x, y) == Rat(x.n * y.d, x.d * y.n)
RLt(x, y) == x.n * y.d < y.n * x.d
RLe(x, y) == x.n * y.d <= y.n * x.d
RMax(x, y) == IF RLt(x, y) THEN y ELSE x
RMin(x, y) == IF RLt(y, x) THEN y ELSE x
\* Math.round: the nearest integer, a tie going up
RRound(x) == (2 * x.n + x.d) \div (2 * x.d)

(***************************************************************************)
(* sm2.js                                                                  *)
(***************************************************************************)
Undefined == [undefined |-> TRUE]

\* `averageTimeMs || 3000`: undefined and 0 are falsy
OrDefault(averageTimeMs, dflt) ==
    IF averageTimeMs = Undefined THEN dflt
    ELSE IF averageTimeMs.n = 0 THEN dflt
    ELSE averageTimeMs

\* mutant: the two failure grades the wrong way round
responseToQuality_Swapped(isCorrect, responseTimeMs, averageTimeMs) ==
    IF ~isCorrect
    THEN IF responseTimeMs < 3000 THEN 0 ELSE 1
    ELSE LET timeFactor == RDiv(RInt(responseTimeMs),
                                OrDefault(averageTimeMs, RInt(3000)))
         IN  IF RLt(timeFactor, Rat(5, 10)) THEN 5
             ELSE IF RLt(timeFactor, RInt(1)) THEN 4
             ELSE 3

\* mutant: <= where the code compares with <
responseToQuality_Inclusive(isCorrect, responseTimeMs, averageTimeMs) ==
    IF ~isCorrect
    THEN IF responseTimeMs < 3000 THEN 1 ELSE 0
    ELSE LET timeFactor == RDiv(RInt(responseTimeMs),
                                OrDefault(averageTimeMs, RInt(3000)))
         IN  IF RLe(timeFactor, Rat(5, 10)) THEN 5
             ELSE IF RLe(timeFactor, RInt(1)) THEN 4
             ELSE 3

responseToQuality(isCorrect, responseTimeMs, averageTimeMs) ==
    IF ~isCorrect
    THEN IF responseTimeMs < 3000 THEN 1 ELSE 0
    ELSE LET timeFactor == RDiv(RInt(responseTimeMs),
                                OrDefault(averageTimeMs, RInt(3000)))
         IN  IF RLt(timeFactor, Rat(5, 10)) THEN 5
             ELSE IF RLt(timeFactor, RInt(1)) THEN 4
             ELSE 3

\* mutant: the quadratic term (5 - quality) * 0.02 left out
RawEaseFactor_Linear(quality, easeFactor) ==
    RAdd(easeFactor,
         RSub(Rat(1, 10), RMul(RInt(5 - quality), Rat(8, 100))))

\* newEF = easeFactor + (0.1 - (5 - quality) * (0.08 + (5 - quality) * 0.02))
RawEaseFactor(quality, easeFactor) ==
    RAdd(easeFactor,
         RSub(Rat(1, 10),
              RMul(RInt(5 - quality),
                   RAdd(Rat(8, 100), RMul(RInt(5 - quality), Rat(2, 100))))))

\* mutant: the floor of 1.3 left out
NewEaseFactor_NoFloor(quality, easeFactor) ==
    RawEaseFactor(quality, easeFactor)

\* newEF = Math.max(1.3, newEF)
NewEaseFactor(quality, easeFactor) ==
    RMax(Rat(13, 10), RawEaseFactor(quality, easeFactor))

\* mutant: a failed answer restarts the repetitions but keeps the interval
calculateSM2_KeepsInterval(quality, easeFactor, interval, repetitions) ==
    LET newEF == NewEaseFactor(quality, easeFactor)
    IN  IF quality < 3
        THEN [easeFactor |-> newEF, interval |-> interval, repetitions |-> 0]
        ELSE LET newReps == repetitions + 1
                 newInterval ==
                     IF newReps = 1 THEN 1
                     ELSE IF newReps = 2 THEN 6
                     ELSE RRound(RMul(RInt(interval), newEF))
             IN  [easeFactor |-> newEF, interval |-> newInterval,
                  repetitions |-> newReps]

\* mutant: later intervals grow by the ease factor of before this call
calculateSM2_OldEF(quality, easeFactor, interval, repetitions) ==
    LET newEF == NewEaseFactor(quality, easeFactor)
    IN  IF quality < 3
        THEN [easeFactor |-> newEF, interval |-> 1, repetitions |-> 0]
        ELSE LET newReps == repetitions + 1
                 newInterval ==
                     IF newReps = 1 THEN 1
                     ELSE IF newReps = 2 THEN 6
                     ELSE RRound(RMul(RInt(interval), easeFactor))
             IN  [easeFactor |-> newEF, interval |-> newInterval,
                  repetitions |-> newReps]

\* mutant: later intervals are the rounded ease factor, the old interval dropped
calculateSM2_DropsInterval(quality, easeFactor, interval, repetitions) ==
    LET newEF == NewEaseFactor(quality, easeFactor)
    IN  IF quality < 3
        THEN [easeFactor |-> newEF, interval |-> 1, repetitions |-> 0]
        ELSE LET newReps == repetitions + 1
                 newInterval ==
                     IF newReps = 1 THEN 1
                     ELSE IF newReps = 2 THEN 6
                     ELSE RRound(newEF)
             IN  [easeFactor |-> newEF, interval |-> newInterval,
                  repetitions |-> newReps]

calculateSM2(quality, easeFactor, interval, repetitions) ==
    LET newEF == NewEaseFactor(quality, easeFactor)
    IN  IF quality < 3
        THEN [easeFactor |-> newEF, interval |-> 1, repetitions |-> 0]
        ELSE LET newReps == repetitions + 1
                 newInterval ==
                     IF newReps = 1 THEN 1
                     ELSE IF newReps = 2 THEN 6
                     ELSE RRound(RMul(RInt(interval), newEF))
             IN  [easeFactor |-> newEF, interval |-> newInterval,
                  repetitions |-> newReps]

\* mutant: the interval is not added to the date
getNextReviewDateFrom_Today(today, intervalDays) == today

\* date.setDate(date.getDate() + intervalDays)
getNextReviewDateFrom(today, intervalDays) == today + intervalDays

\* date.setDate(date.getDate() + intervalDays) on new Date()
getNextReviewDate(intervalDays) == getNextReviewDateFrom(now, intervalDays)

\* sign.category of the catalog entry the caller passes
CategoryOf(signId) == "warning"

\* the record updateWithSM2 starts from when the store holds none
DefaultProgress(signId, category) ==
    [signId |-> signId,
     category |-> category,
     totalAttempts |-> 0,
     correctAttempts |-> 0,
     easeFactor |-> Rat(25, 10),
     interval |-> 0,
     repetitions |-> 0,
     nextReviewDate |-> now,
     lastAttemptDate |-> "null",
     averageResponseTime |-> RInt(3000)]

\* mutant: every attempt counted as a correct one
CorrectAttemptsAfter_Always(progress, isCorrect) ==
    progress.correctAttempts + 1

\* if (isCorrect) progress.correctAttempts++
CorrectAttemptsAfter(progress, isCorrect) ==
    IF isCorrect THEN progress.correctAttempts + 1 ELSE progress.correctAttempts

\* get(STORES.SIGN_PROGRESS, signId) is defined
HasProgress(signId) == signId \in DOMAIN signProgress

\* mutant: the average is replaced first and the quality derived from it
ProgressAfter_NewAverage(progress, isCorrect, responseTimeMs, today) ==
    LET totalAttempts == progress.totalAttempts + 1
        prevTotal == RMul(progress.averageResponseTime, RInt(totalAttempts - 1))
        average == RDiv(RAdd(prevTotal, RInt(responseTimeMs)), RInt(totalAttempts))
        quality == responseToQuality(isCorrect, responseTimeMs, average)
        sm2Result == calculateSM2(quality, progress.easeFactor,
                                  progress.interval, progress.repetitions)
    IN  [signId |-> progress.signId,
         category |-> progress.category,
         totalAttempts |-> totalAttempts,
         correctAttempts |-> CorrectAttemptsAfter(progress, isCorrect),
         easeFactor |-> sm2Result.easeFactor,
         interval |-> sm2Result.interval,
         repetitions |-> sm2Result.repetitions,
         nextReviewDate |-> getNextReviewDateFrom(today, sm2Result.interval),
         lastAttemptDate |-> today,
         averageResponseTime |-> average,
         lastQuality |-> quality]

\* the body of updateWithSM2 after the record is read: the record it puts,
\* on the day `today`
ProgressAfter(progress, isCorrect, responseTimeMs, today) ==
    LET quality == responseToQuality(isCorrect, responseTimeMs,
                                     progress.averageResponseTime)
        sm2Result == calculateSM2(quality, progress.easeFactor,
                                  progress.interval, progress.repetitions)
        totalAttempts == progress.totalAttempts + 1
        prevTotal == RMul(progress.averageResponseTime, RInt(totalAttempts - 1))
    IN  [signId |-> progress.signId,
         category |-> progress.category,
         totalAttempts |-> totalAttempts,
         correctAttempts |-> CorrectAttemptsAfter(progress, isCorrect),
         easeFactor |-> sm2Result.easeFactor,
         interval |-> sm2Result.interval,
         repetitions |-> sm2Result.repetitions,
         nextReviewDate |-> getNextReviewDateFrom(today, sm2Result.interval),
         lastAttemptDate |-> today,
         averageResponseTime |->
             RDiv(RAdd(prevTotal, RInt(responseTimeMs)), RInt(totalAttempts)),
         lastQuality |-> quality]

\* the record updateWithSM2 puts for this answer
UpdatedProgress(signId, category, isCorrect, responseTimeMs) ==
    ProgressAfter(IF HasProgress(signId) THEN signProgress[signId]
                  ELSE DefaultProgress(signId, category),
                  isCorrect, responseTimeMs, now)

\* put(STORES.SIGN_PROGRESS, progress)
put(store, progress) ==
    [s \in DOMAIN store \cup {progress.signId} |->
        IF s = progress.signId THEN progress ELSE store[s]]

\* one whole call of updateWithSM2, no other call overlapping it
updateWithSM2(signId, category, isCorrect, responseTimeMs) ==
    /\ callCount[signId] < MaxAttempts
    /\ signProgress' = put(signProgress,
                           UpdatedProgress(signId, category, isCorrect, responseTimeMs))
    /\ callCount' = [callCount EXCEPT ![signId] = @ + 1]
    /\ correctCount' = [correctCount EXCEPT ![signId] = IF isCorrect THEN @ + 1 ELSE @]
    /\ UNCHANGED <<now, probe>>
    /\ UNCHANGED <<quizVars, flow>>

\* mutant: the weights of accuracy and ease factor exchanged
getRetentionScore_Weights(progress) ==
    IF progress = Undefined THEN 0
    ELSE IF progress.totalAttempts = 0 THEN 0
    ELSE LET accuracy == Rat(progress.correctAttempts, progress.totalAttempts)
             efFactor == RDiv(RSub(progress.easeFactor, Rat(13, 10)),
                              RSub(Rat(25, 10), Rat(13, 10)))
             repsFactor == RMin(RInt(1), Rat(progress.repetitions, 5))
         IN  RRound(RMul(RAdd(RAdd(RMul(accuracy, Rat(3, 10)),
                                   RMul(efFactor, Rat(5, 10))),
                              RMul(repsFactor, Rat(2, 10))),
                         RInt(100)))

getRetentionScore(progress) ==
    IF progress = Undefined THEN 0
    ELSE IF progress.totalAttempts = 0 THEN 0
    ELSE LET accuracy == Rat(progress.correctAttempts, progress.totalAttempts)
             efFactor == RDiv(RSub(progress.easeFactor, Rat(13, 10)),
                              RSub(Rat(25, 10), Rat(13, 10)))
             repsFactor == RMin(RInt(1), Rat(progress.repetitions, 5))
         IN  RRound(RMul(RAdd(RAdd(RMul(accuracy, Rat(5, 10)),
                                   RMul(efFactor, Rat(3, 10))),
                              RMul(repsFactor, Rat(2, 10))),
                         RInt(100)))

\* mutant: the thresholds are exclusive
getMasteryLevel_Exclusive(progress) ==
    LET score == getRetentionScore(progress)
    IN  IF score > 90 THEN "master"
        ELSE IF score > 70 THEN "proficient"
        ELSE IF score > 50 THEN "learning"
        ELSE IF score > 25 THEN "beginner"
        ELSE "new"

\* the level of the object getMasteryLevel returns
getMasteryLevel(progress) ==
    LET score == getRetentionScore(progress)
    IN  IF score >= 90 THEN "master"
        ELSE IF score >= 70 THEN "proficient"
        ELSE IF score >= 50 THEN "learning"
        ELSE IF score >= 25 THEN "beginner"
        ELSE "new"

\* mutant: a review is due only after its date
isDueForReview_Strict(progress) ==
    IF progress = Undefined THEN TRUE ELSE progress.nextReviewDate < now

\* new Date(progress.nextReviewDate) <= new Date()
isDueForReview(progress) ==
    IF progress = Undefined THEN TRUE ELSE progress.nextReviewDate <= now

\* time passes
Tick ==
    /\ now < MaxDay
    /\ now' = now + 1
    /\ UNCHANGED <<signProgress, callCount, correctCount, probe>>
    /\ UNCHANGED <<quizVars, flow>>

NoProbe == [fn |-> "none"]

\* null, as a value of its own
Null == [null |-> TRUE]

\* the `state` object as state.js declares it (signData is the catalog below)
InitialState ==
    [selectedCategories |-> <<>>,
     quizSigns |-> <<>>,
     currentQuestion |-> 0,
     correctAnswers |-> 0,
     streak |-> 0,
     bestStreak |-> 0,
     wrongAnswers |-> <<>>,
     questionsPerQuiz |-> 15,
     quizMode |-> "standard",
     difficulty |-> "adaptive",
     currentScreen |-> "start",
     quizStartTime |-> Null,
     quizEndTime |-> Null]

NoCall == [op |-> "none"]

\* the page with no handler suspended: the next button hidden (renderQuestion),
\* the options of the question as rendered; `started` and `rejections` are
\* history: successful startQuiz calls and handlers ended by a rejection;
\* isModelReady and model are the variables of prediction.js
NoFlow ==
    [inFlight |-> <<>>,
     nextBtn |-> FALSE,
     optionsDisabled |-> FALSE,
     started |-> 0,
     rejections |-> 0,
     isModelReady |-> FALSE,
     model |-> Null]

\* no quiz has been started and no session saved
QuizIdle ==
    /\ state = InitialState
    /\ currentQuestion = Null
    /\ quizSessions = <<>>
    /\ categoryStats = <<>>
    /\ lastCall = NoCall
    /\ flow = NoFlow

Init ==
    /\ signProgress = <<>>
    /\ now = 0
    /\ callCount = [s \in SignIds |-> 0]
    /\ correctCount = [s \in SignIds |-> 0]
    /\ probe = NoProbe
    /\ QuizIdle

Next ==
    \/ \E signId \in SignIds, isCorrect \in BOOLEAN, responseTimeMs \in ResponseTimes :
          updateWithSM2(signId, CategoryOf(signId), isCorrect, responseTimeMs)
    \/ Tick

Spec == Init /\ [][Next]_vars

(***************************************************************************)
(* The pure functions on their own: Init draws one call's arguments, the   *)
(* action of the function applies it.                                      *)
(***************************************************************************)
TimeGrid == {500 * k : k \in 0..MaxTimeStep}
ProbeAverages == {Undefined} \cup {Rat(t, m) : t \in TimeGrid, m \in 1..3}
ProbeEaseFactors == {Rat(k, 20) : k \in 20..MaxProbeEF}
ProbeRecords ==
    {Undefined} \cup
    {[totalAttempts |-> t, correctAttempts |-> c, easeFactor |-> ef, repetitions |-> r] :
        t \in 0..MaxProbeTotal, c \in 0..MaxProbeTotal,
        ef \in {e \in ProbeEaseFactors : RLe(Rat(13, 10), e)}, r \in 0..MaxProbeReps}

ProbeCall(fn, args) == [fn |-> fn, args |-> args, done |-> FALSE, result |-> <<>>]

ProbeCalls ==
    {ProbeCall("responseToQuality", <<c, rt, avg>>) :
        c \in BOOLEAN, rt \in TimeGrid, avg \in ProbeAverages}
    \cup
    {ProbeCall("calculateSM2", <<q, ef, i, r>>) :
        q \in 0..5, ef \in ProbeEaseFactors,
        i \in 0..MaxProbeInterval, r \in 0..MaxProbeReps}
    \cup
    {ProbeCall("getRetentionScore", <<p>>) :
        p \in {x \in ProbeRecords :
                  x = Undefined \/ x.correctAttempts <= x.totalAttempts}}
    \cup
    {ProbeCall("isDueForReview", <<p>>) :
        p \in {Undefined} \cup
               {[signId |-> "A1", nextReviewDate |-> date] : date \in 0..MaxDay + 1}}
    \cup
    {ProbeCall("getMasteryLevel", <<p>>) :
        p \in {x \in ProbeRecords :
                  x = Undefined \/ x.correctAttempts <= x.totalAttempts}}

Pending(fn) == probe.fn = fn /\ ~probe.done
Returned(fn) == probe.fn = fn /\ probe.done
Return(result) ==
    /\ probe' = [probe EXCEPT !.done = TRUE, !.result = result]
    /\ UNCHANGED <<signProgress, now, callCount, correctCount>>
    /\ UNCHANGED <<quizVars, flow>>

CallResponseToQuality ==
    /\ Pending("responseToQuality")
    /\ Return(responseToQuality(probe.args[1], probe.args[2], probe.args[3]))

CallCalculateSM2 ==
    /\ Pending("calculateSM2")
    /\ Return(calculateSM2(probe.args[1], probe.args[2], probe.args[3], probe.args[4]))

CallGetRetentionScore ==
    /\ Pending("getRetentionScore")
    /\ Return(getRetentionScore(probe.args[1]))

CallIsDueForReview ==
    /\ Pending("isDueForReview")
    /\ Return(isDueForReview(probe.args[1]))

\* the calls of getMasteryLevel on one record, one after the other:
\* probe.result lists the levels returned; the function reads the record and
\* assigns none of its fields
MaxCalls == 2

CallGetMasteryLevel ==
    /\ probe.fn = "getMasteryLevel"
    /\ Len(probe.result) < MaxCalls
    /\ probe' = [probe EXCEPT !.done = TRUE,
                              !.result = Append(@, getMasteryLevel(probe.args[1]))]
    /\ UNCHANGED <<signProgress, now, callCount, correctCount>>
    /\ UNCHANGED <<quizVars, flow>>

FnInit ==
    /\ signProgress = <<>>
    /\ probe \in ProbeCalls
    /\ now \in (IF probe.fn = "isDueForReview" THEN 0..MaxDay ELSE {0})
    /\ callCount = [s \in SignIds |-> 0]
    /\ correctCount = [s \in SignIds |-> 0]
    /\ QuizIdle

FnNext ==
    \/ CallResponseToQuality
    \/ CallCalculateSM2
    \/ CallGetRetentionScore
    \/ CallIsDueForReview
    \/ CallGetMasteryLevel

FnSpec == FnInit /\ [][FnNext]_vars

(***************************************************************************)
(* The properties.  The claims' side is written on integers: an ease       *)
(* factor n/d in hundredths, a rounding as the two inequalities around the *)
(* nearest integer.                                                        *)
(***************************************************************************)
Stored == {signProgress[s] : s \in DOMAIN signProgress}

\* 0.1 - (5 - q) * (0.08 + (5 - q) * 0.02), in hundredths
Delta100(q) == 10 - (5 - q) * (8 + (5 - q) * 2)

\* max(1.3, ef + Delta100(q) / 100) as the numerator over 100 * ef.d
UpdatedEF100(q, ef) ==
    IF 100 * ef.n + Delta100(q) * ef.d < 130 * ef.d
    THEN 130 * ef.d
    ELSE 100 * ef.n + Delta100(q) * ef.d

\* r is num / den rounded to the nearest integer, a tie going up (den > 0)
IsRounded(r, num, den) ==
    /\ (2 * r - 1) * den <= 2 * num
    /\ 2 * num < (2 * r + 1) * den

\* C1: after any finite sequence of updateWithSM2 calls on an item, starting
\* from no record, the stored record's easeFactor is at least 1.3.
C1_EaseFactorFloor ==
    \A p \in Stored : 10 * p.easeFactor.n >= 13 * p.easeFactor.d

\* C1 witness: two failed answers, the second of which the floor has caught
\* (2.5 - 0.8 - 0.54 = 1.16 is stored as 1.3).
C1_Witness ==
    \E p \in Stored :
        /\ p.totalAttempts = 2
        /\ p.correctAttempts = 0
        /\ p.easeFactor = [n |-> 13, d |-> 10]

\* C2: a failed answer resets learning: calculateSM2 with a quality below 3
\* returns repetitions 0 and interval 1 from every stored record, and every
\* stored record whose lastQuality is below 3 has repetitions 0 and interval 1.
C2_FailureResets ==
    \A p \in Stored :
        /\ p.lastQuality < 3 => p.repetitions = 0 /\ p.interval = 1
        /\ \A q \in 0..2 :
              LET r == calculateSM2(q, p.easeFactor, p.interval, p.repetitions)
              IN  r.repetitions = 0 /\ r.interval = 1

\* C2 witness: a failure stored after an interval of 6 days had been reached.
C2_Witness ==
    \E p \in Stored :
        /\ p.lastQuality < 3
        /\ p.totalAttempts = 3
        /\ p.correctAttempts = 2
        /\ p.repetitions = 0
        /\ p.interval = 1

\* C3: with a quality of 3 or more calculateSM2 returns repetitions + 1, and
\* the interval 1 at the first repetition, 6 at the second, and afterwards
\* round(interval * easeFactor') with the ease factor this call has updated.
C3_CorrectAnswerInterval ==
    (Returned("calculateSM2") /\ probe.args[1] >= 3) =>
        LET q == probe.args[1]
            ef == probe.args[2]
            interval == probe.args[3]
            repetitions == probe.args[4]
            res == probe.result
        IN  /\ res.repetitions = repetitions + 1
            /\ res.repetitions = 1 => res.interval = 1
            /\ res.repetitions = 2 => res.interval = 6
            /\ res.repetitions >= 3 =>
                  IsRounded(res.interval, interval * UpdatedEF100(q, ef), 100 * ef.d)

\* C3 witness: a third repetition at quality 3 from interval 6 and ease factor
\* 2.5: 6 * 2.36 = 14.16 gives 14, where the old ease factor would give 15.
C3_Witness ==
    /\ Returned("calculateSM2")
    /\ probe.args = <<3, [n |-> 5, d |-> 2], 6, 2>>
    /\ probe.result.repetitions = 3
    /\ probe.result.interval = 14

\* C4: for every quality q in 0..5 and every ease factor calculateSM2 returns
\* max(1.3, easeFactor + 0.1 - (5-q)*(0.08 + (5-q)*0.02)); a new record answered
\* correctly in 1000 ms against the average of 3000 ms gets quality 5,
\* repetitions 1, interval 1 and ease factor 2.6.
C4_EaseFactorUpdate ==
    /\ Returned("calculateSM2") =>
          LET ef == probe.args[2]
              res == probe.result.easeFactor
          IN  res.n * 100 * ef.d = res.d * UpdatedEF100(probe.args[1], ef)
    /\ (Returned("responseToQuality") /\ probe.args = <<TRUE, 1000, [n |-> 3000, d |-> 1]>>)
          => probe.result = 5
    /\ (Returned("calculateSM2") /\ probe.args = <<5, [n |-> 5, d |-> 2], 0, 0>>)
          => probe.result = [easeFactor |-> [n |-> 13, d |-> 5],
                             interval |-> 1, repetitions |-> 1]

\* C4 witness: the first, perfect answer to a new record has been computed.
C4_Witness ==
    /\ Returned("calculateSM2")
    /\ probe.args = <<5, [n |-> 5, d |-> 2], 0, 0>>
    /\ probe.result.easeFactor = [n |-> 13, d |-> 5]

\* a record stored by the first call on an item, the answer incorrect and
\* given in 5000 ms (the average of one response time is that time)
FirstAnswerWrongIn5000(p) ==
    /\ p.totalAttempts = 1
    /\ p.correctAttempts = 0
    /\ p.averageResponseTime = [n |-> 5000, d |-> 1]

\* C5 as stated: a new record answered incorrectly in 5000 ms gets quality 0,
\* repetitions 0, interval 1 and ease factor exactly 1.6.
C5_AsStated ==
    \A p \in Stored :
        FirstAnswerWrongIn5000(p) =>
            /\ p.lastQuality = 0
            /\ p.repetitions = 0
            /\ p.interval = 1
            /\ p.easeFactor = [n |-> 8, d |-> 5]

\* C5 as amended: a new record answered incorrectly in 5000 ms gets quality 0,
\* repetitions 0, interval 1 and ease factor 1.7 (2.5 + 0.1 - 0.9).
C5_ScenarioB ==
    \A p \in Stored :
        FirstAnswerWrongIn5000(p) =>
            /\ p.lastQuality = 0
            /\ p.repetitions = 0
            /\ p.interval = 1
            /\ p.easeFactor = [n |-> 17, d |-> 10]

\* C5 witness: that first answer has been stored.
C5_Witness ==
    \E p \in Stored : FirstAnswerWrongIn5000(p) /\ p.lastQuality = 0

\* C6: along any sequence of updateWithSM2 calls on one item each correct
\* answer (quality >= 3) leaves the interval at least what it was before the
\* answer, and each failed answer sets it to 1.
C6_IntervalSteps ==
    [][\A s \in SignIds :
          callCount'[s] = callCount[s] + 1 =>
              LET before == IF HasProgress(s) THEN signProgress[s].interval ELSE 0
                  after == signProgress'[s]
              IN  /\ after.lastQuality >= 3 => after.interval >= before
                  /\ after.lastQuality < 3 => after.interval = 1]_vars

\* C6 witness: a run of correct answers has taken the interval past 6 days.
C6_Witness ==
    \E p \in Stored : p.repetitions >= 4 /\ p.interval > 6 /\ p.lastQuality >= 3

\* C7: responseToQuality returns 1 for an incorrect answer given in under
\* 3000 ms and 0 for any other incorrect answer; for a correct answer 5 when
\* responseTime / average < 0.5, 4 when < 1.0, else 3, the average being
\* 3000 ms when it is 0 or absent; the result is always in {0, 1, 3, 4, 5}.
C7_QualityTable ==
    Returned("responseToQuality") =>
        LET isCorrect == probe.args[1]
            rt == probe.args[2]
            avg == probe.args[3]
            \* the average as a fraction an/ad
            an == IF avg = Undefined THEN 3000 ELSE IF avg.n = 0 THEN 3000 ELSE avg.n
            ad == IF avg = Undefined THEN 1 ELSE IF avg.n = 0 THEN 1 ELSE avg.d
        IN  /\ probe.result \in {0, 1, 3, 4, 5}
            /\ ~isCorrect => probe.result = (IF rt < 3000 THEN 1 ELSE 0)
            /\ (isCorrect /\ 2 * rt * ad < an) => probe.result = 5
            /\ (isCorrect /\ 2 * rt * ad >= an /\ rt * ad < an) => probe.result = 4
            /\ (isCorrect /\ rt * ad >= an) => probe.result = 3

\* C7 witness: a correct answer in 1500 ms with no history (average 0) is
\* measured against 3000 ms and lands on the boundary 0.5: quality 4.
C7_Witness ==
    /\ Returned("responseToQuality")
    /\ probe.args = <<TRUE, 1500, [n |-> 0, d |-> 1]>>
    /\ probe.result = 4

\* C8: after any sequence of non-overlapping updateWithSM2 calls on one item
\* the stored record has 0 <= correctAttempts <= totalAttempts, totalAttempts
\* the number of calls made and correctAttempts the number of them with
\* isCorrect = true.
C8_AttemptCounts ==
    \A s \in SignIds :
        IF HasProgress(s)
        THEN /\ signProgress[s].totalAttempts = callCount[s]
             /\ signProgress[s].correctAttempts = correctCount[s]
             /\ 0 <= signProgress[s].correctAttempts
             /\ signProgress[s].correctAttempts <= signProgress[s].totalAttempts
        ELSE callCount[s] = 0

\* C8 witness: three calls, one of them correct.
C8_Witness ==
    \E s \in SignIds :
        /\ HasProgress(s)
        /\ callCount[s] = 3
        /\ correctCount[s] = 1
        /\ signProgress[s].totalAttempts = 3
        /\ signProgress[s].correctAttempts = 1

\* C9: for every record reachable through updateWithSM2 calls, and for an
\* absent record, getRetentionScore returns an integer in 0..100.
C9_ScoreInRange ==
    /\ getRetentionScore(Undefined) \in 0..100
    /\ \A p \in Stored : getRetentionScore(p) \in 0..100

Sign(id, difficulty) == [id |-> id, difficulty |-> difficulty]

signData ==
    [warning |-> <<Sign("A1", 1), Sign("A2", 0), Sign("A3", 3), Sign("A4", 5)>>,
     priority |-> <<Sign("B1", 1), Sign("B2", 2)>>]

CategoryKeys == DOMAIN signData

\* the ids of the catalog in ascending key order of the stores
KeyOrder == <<"A1", "A2", "A3", "A4", "B1", "B2">>
CatalogIds == {KeyOrder[i] : i \in 1..Len(KeyOrder)}

QuizModes == {"standard", "missed", "weakest", "spaced", "adaptive"}
Difficulties == {"adaptive", "easy", "medium", "hard"}

\* the values Math.random() returns in the model
RandomValues == {Rat(0, 1), Rat(1, 2)}

\* one value of Math.random() for every iteration of the shuffle of an
\* array of `length` elements
RandomStreams(length) == [1..(length - 1) -> RandomValues]

\* Math.floor of a non-negative rational
Floor(x) == x.n \div x.d

Min(a, b) == IF a < b THEN a ELSE b
Max(a, b) == IF a > b THEN a ELSE b

\* array.slice(0, end)
Slice(array, end) ==
    LET last == IF end < 0 THEN Max(Len(array) + end, 0) ELSE Min(end, Len(array))
    IN  SubSeq(array, 1, last)

\* array.map(s => s.id) as a set
Ids(array) == {array[i].id : i \in 1..Len(array)}

\* the iterations i, i - 1, .., 1 of shuffleArray's loop (0-based i)
RECURSIVE FisherYates(_, _, _)
FisherYates(arr, i, random) ==
    IF i <= 0 THEN arr
    ELSE LET j == Floor(RMul(random[i], RInt(i + 1)))
         IN  FisherYates([arr EXCEPT ![i + 1] = arr[j + 1], ![j + 1] = arr[i + 1]],
                         i - 1, random)

shuffleArray(array, random) == FisherYates(array, Len(array) - 1, random)

\* sign.difficulty || 2
SignDifficulty(sign) == IF sign.difficulty = 0 THEN 2 ELSE sign.difficulty

\* difficultyMap[difficulty] || [1, 2, 3, 4, 5]
AllowedDifficulties(difficulty) ==
    CASE difficulty = "easy" -> {1, 2}
      [] difficulty = "medium" -> {2, 3, 4}
      [] difficulty = "hard" -> {3, 4, 5}
      [] OTHER -> {1, 2, 3, 4, 5}

\* mutant: a sign without a difficulty is not given the difficulty 2
filterByDifficulty_NoDefault(signs, difficulty) ==
    IF difficulty = "adaptive" THEN signs
    ELSE LET Allowed(sign) == sign.difficulty \in AllowedDifficulties(difficulty)
         IN  SelectSeq(signs, Allowed)

filterByDifficulty(signs, difficulty) ==
    IF difficulty = "adaptive" THEN signs
    ELSE LET Allowed(sign) == SignDifficulty(sign) \in AllowedDifficulties(difficulty)
         IN  SelectSeq(signs, Allowed)

\* the signs of one category as selectQuizSigns pushes them
CategorySigns(catKey) ==
    IF catKey \in CategoryKeys
    THEN [i \in 1..Len(signData[catKey]) |->
             [id |-> signData[catKey][i].id,
              difficulty |-> signData[catKey][i].difficulty,
              category |-> catKey]]
    ELSE <<>>

RECURSIVE CategoryCandidates(_)
CategoryCandidates(selectedCategories) ==
    IF selectedCategories = <<>> THEN <<>>
    ELSE CategorySigns(Head(selectedCategories))
         \o CategoryCandidates(Tail(selectedCategories))

\* the candidate pool: the signs of the selected categories, in the order of
\* the selection, that pass the difficulty filter
Candidates(st) ==
    filterByDifficulty(CategoryCandidates(st.selectedCategories), st.difficulty)

(***************************************************************************)
(* The store helpers the selection reads with.  A saved session's date is  *)
(* the day and, within the day, the number of sessions saved before it:    *)
(* two saves never carry the same timestamp.                               *)
(***************************************************************************)
DateBefore(a, b) == a.day < b.day \/ (a.day = b.day /\ a.order < b.order)

\* array.sort(compare) for a comparator that orders by ascending key: the
\* sort is stable, an element goes behind the elements of equal key that
\* precede it in the array
RECURSIVE Inserted(_, _)
Inserted(sorted, x) ==
    IF sorted = <<>> THEN <<x>>
    ELSE IF RLt(x.key, Head(sorted).key) THEN <<x>> \o sorted
    ELSE <<Head(sorted)>> \o Inserted(Tail(sorted), x)

RECURSIVE SortedFrom(_, _, _, _)
SortedFrom(sorted, array, key, i) ==
    IF i > Len(array) THEN sorted
    ELSE SortedFrom(Inserted(sorted, [item |-> array[i], key |-> key[i]]),
                    array, key, i + 1)

SortedBy(array, key) ==
    LET sorted == SortedFrom(<<>>, array, key, 1)
    IN  [p \in 1..Len(array) |-> sorted[p].item]

\* getAll(STORES.SIGN_PROGRESS): the records in ascending key order
AllProgress ==
    LET Has(id) == id \in DOMAIN signProgress
        ids == SelectSeq(KeyOrder, Has)
    IN  [i \in 1..Len(ids) |-> signProgress[ids[i]]]

\* sessions.sort((a, b) => new Date(b.date) - new Date(a.date))[0]
getLatestQuizSession ==
    IF Len(quizSessions) = 0 THEN Null
    ELSE quizSessions[CHOOSE i \in 1..Len(quizSessions) :
             \A j \in 1..Len(quizSessions) :
                 j # i => DateBefore(quizSessions[j].date, quizSessions[i].date)]

getWeakestSigns(limit) ==
    LET Attempted(p) == p.totalAttempts >= 2
        filtered == SelectSeq(AllProgress, Attempted)
        accuracy == [i \in 1..Len(filtered) |->
                        Rat(filtered[i].correctAttempts, filtered[i].totalAttempts)]
    IN  Slice(SortedBy(filtered, accuracy), limit)

\* index.getAll(IDBKeyRange.upperBound(now), limit) on the nextReviewDate
\* index: ascending nextReviewDate, equal dates in key order
getDueForReview(limit) ==
    LET Due(p) == p.nextReviewDate <= now
        due == SelectSeq(AllProgress, Due)
        date == [i \in 1..Len(due) |-> RInt(due[i].nextReviewDate)]
    IN  Slice(SortedBy(due, date), limit)

\* array.map(p => p.signId) as a set
SignIdsOf(records) == {records[i].signId : i \in 1..Len(records)}

\* mutant: the fill drawn from all candidates, the selected ones included
Remaining_All(candidates, selected) == candidates

\* candidates.filter(s => !selected.some(sel => sel.id === s.id))
Remaining(candidates, selected) ==
    LET NotSelected(s) == s.id \notin Ids(selected)
    IN  SelectSeq(candidates, NotSelected)

(***************************************************************************)
(* selectQuizSigns, one operator for each case of its switch.  `random`    *)
(* is the stream of Math.random() values the one shuffle of the call       *)
(* draws.                                                                  *)
(***************************************************************************)
\* the length below which 'missed' adds random signs
MissedFillBelow == 5

\* [...selected, ...shuffleArray(remaining).slice(0, questionsPerQuiz - selected.length)]
WithRandomFill(candidates, selected, questionsPerQuiz, random) ==
    selected \o Slice(shuffleArray(Remaining(candidates, selected), random),
                      questionsPerQuiz - Len(selected))

\* case 'missed': the candidates the latest session got wrong
MissedSigns(candidates) ==
    LET lastSession == getLatestQuizSession
    IN  IF lastSession # Null /\ Len(lastSession.wrongAnswers) > 0
        THEN LET Missed(s) == s.id \in Ids(lastSession.wrongAnswers)
             IN  SelectSeq(candidates, Missed)
        ELSE <<>>

SelectMissed(candidates, questionsPerQuiz, random) ==
    LET selected == MissedSigns(candidates)
    IN  IF Len(selected) < MissedFillBelow
        THEN WithRandomFill(candidates, selected, questionsPerQuiz, random)
        ELSE selected

\* mutant: the weakest candidates in the order of getWeakestSigns
WeakestSigns_ByAccuracy(candidates, questionsPerQuiz) ==
    LET InPool(w) == w.signId \in Ids(candidates)
        weakest == SelectSeq(getWeakestSigns(questionsPerQuiz), InPool)
    IN  [i \in 1..Len(weakest) |->
            CHOOSE s \in {candidates[k] : k \in 1..Len(candidates)} :
                s.id = weakest[i].signId]

\* case 'weakest': the candidates among the weakest records
WeakestSigns(candidates, questionsPerQuiz) ==
    LET weakestIds == SignIdsOf(getWeakestSigns(questionsPerQuiz))
        Weak(s) == s.id \in weakestIds
    IN  SelectSeq(candidates, Weak)

SelectWeakest(candidates, questionsPerQuiz, random) ==
    LET selected == WeakestSigns(candidates, questionsPerQuiz)
    IN  IF Len(selected) < questionsPerQuiz
        THEN WithRandomFill(candidates, selected, questionsPerQuiz, random)
        ELSE selected

\* case 'spaced': the candidates among the records due for review
DueSigns(candidates, questionsPerQuiz) ==
    LET dueIds == SignIdsOf(getDueForReview(questionsPerQuiz * 2))
        Due(s) == s.id \in dueIds
    IN  SelectSeq(candidates, Due)

\* mutant: a list still short after the new signs is filled from the rest
\* of the pool
SelectSpaced_ThenRest(candidates, questionsPerQuiz, random) ==
    LET selected == DueSigns(candidates, questionsPerQuiz)
        studiedIds == SignIdsOf(AllProgress)
        New(s) == s.id \notin studiedIds
        newSigns == SelectSeq(candidates, New)
        withNew == IF Len(selected) < questionsPerQuiz
                   THEN selected \o Slice(shuffleArray(newSigns, random),
                                          questionsPerQuiz - Len(selected))
                   ELSE selected
    IN  IF Len(withNew) < questionsPerQuiz
        THEN withNew \o Slice(Remaining(candidates, withNew),
                              questionsPerQuiz - Len(withNew))
        ELSE withNew

SelectSpaced(candidates, questionsPerQuiz, random) ==
    LET selected == DueSigns(candidates, questionsPerQuiz)
        studiedIds == SignIdsOf(AllProgress)
        New(s) == s.id \notin studiedIds
        newSigns == SelectSeq(candidates, New)
    IN  IF Len(selected) < questionsPerQuiz
        THEN selected \o Slice(shuffleArray(newSigns, random),
                               questionsPerQuiz - Len(selected))
        ELSE selected

\* mutant: a sign without a record gets the lowest priority
Priority_NewLast(sign) ==
    IF sign.id \in DOMAIN signProgress
    THEN LET progress == signProgress[sign.id]
             retention == getRetentionScore(progress)
         IN  IF isDueForReview(progress)
             THEN RInt(100 - retention)
             ELSE RSub(RInt(20), RMul(RInt(retention), Rat(2, 10)))
    ELSE RInt(0)

\* case 'adaptive': the learning priority of one candidate
Priority(sign) ==
    IF sign.id \in DOMAIN signProgress
    THEN LET progress == signProgress[sign.id]
             retention == getRetentionScore(progress)
         IN  IF isDueForReview(progress)
             THEN RInt(100 - retention)
             ELSE RSub(RInt(20), RMul(RInt(retention), Rat(2, 10)))
    ELSE RInt(50)

\* mutant: candidates of equal priority come out in reverse pool order
SortedByPriority_TiesReversed(candidates) ==
    LET n == Len(candidates)
        reversed == [i \in 1..n |-> candidates[n + 1 - i]]
    IN  SortedBy(reversed,
                 [i \in 1..n |-> RSub(RInt(0), Priority(reversed[i]))])

\* scored.sort((a, b) => b.priority - a.priority)
SortedByPriority(candidates) ==
    SortedBy(candidates,
             [i \in 1..Len(candidates) |-> RSub(RInt(0), Priority(candidates[i]))])

SelectAdaptive(candidates, questionsPerQuiz) ==
    Slice(SortedByPriority(candidates), questionsPerQuiz)

\* mutant: the shuffled pool is returned whole
SelectStandard_Unsliced(candidates, questionsPerQuiz, random) ==
    shuffleArray(candidates, random)

\* default: the standard mode
SelectStandard(candidates, questionsPerQuiz, random) ==
    Slice(shuffleArray(candidates, random), questionsPerQuiz)

\* the list selectQuizSigns assigns to state.quizSigns and returns
selectQuizSigns(st, random) ==
    LET candidates == Candidates(st)
        questionsPerQuiz == st.questionsPerQuiz
    IN  CASE st.quizMode = "missed" ->
               SelectMissed(candidates, questionsPerQuiz, random)
          [] st.quizMode = "weakest" ->
               SelectWeakest(candidates, questionsPerQuiz, random)
          [] st.quizMode = "spaced" ->
               SelectSpaced(candidates, questionsPerQuiz, random)
          [] st.quizMode = "adaptive" ->
               SelectAdaptive(candidates, questionsPerQuiz)
          [] OTHER ->
               SelectStandard(candidates, questionsPerQuiz, random)

\* the array the call's shuffleArray gets: one Math.random() value is drawn
\* for each of its elements but one
ShuffleInput(st) ==
    LET candidates == Candidates(st)
        questionsPerQuiz == st.questionsPerQuiz
        NotStudied(s) == s.id \notin SignIdsOf(AllProgress)
    IN  CASE st.quizMode = "missed" ->
               IF Len(MissedSigns(candidates)) < MissedFillBelow
               THEN Remaining(candidates, MissedSigns(candidates)) ELSE <<>>
          [] st.quizMode = "weakest" ->
               IF Len(WeakestSigns(candidates, questionsPerQuiz)) < questionsPerQuiz
               THEN Remaining(candidates, WeakestSigns(candidates, questionsPerQuiz))
               ELSE <<>>
          [] st.quizMode = "spaced" ->
               IF Len(DueSigns(candidates, questionsPerQuiz)) < questionsPerQuiz
               THEN SelectSeq(candidates, NotStudied) ELSE <<>>
          [] st.quizMode = "adaptive" -> <<>>
          [] OTHER -> candidates

(***************************************************************************)
(* The session.  The engine's functions are called the way app.js calls    *)
(* them: startQuiz from a screen other than the quiz (on success the       *)
(* first question is rendered), checkAnswer once for the question on       *)
(* display (the click disables the options), nextQuestion after the        *)
(* answer (the next button shows then), followed by the next question or   *)
(* by finishQuiz and the results.                                          *)
(***************************************************************************)
MaxSessions == 2
MaxCount == 6

\* the elapsed times Date.now() - startTime of the answers of a session
QuizResponseTimes == {2000}

\* mutant: the position in the list survives the reset
resetQuizState_KeepsPosition(st) ==
    [st EXCEPT !.quizSigns = <<>>,
               !.correctAnswers = 0,
               !.streak = 0,
               !.wrongAnswers = <<>>,
               !.quizStartTime = now,
               !.quizEndTime = Null]

resetQuizState(st) ==
    [st EXCEPT !.quizSigns = <<>>,
               !.currentQuestion = 0,
               !.correctAnswers = 0,
               !.streak = 0,
               !.wrongAnswers = <<>>,
               !.quizStartTime = now,
               !.quizEndTime = Null]

\* mutant: the best streak is never raised
updateStreak_NoHighWater(st, isCorrect) ==
    IF isCorrect
    THEN [st EXCEPT !.streak = @ + 1]
    ELSE [st EXCEPT !.streak = 0]

\* updateStreak(isCorrect); saveSettings() stores bestStreak as it is
updateStreak(st, isCorrect) ==
    IF isCorrect
    THEN [st EXCEPT !.streak = @ + 1,
                    !.bestStreak = IF st.streak + 1 > @ THEN st.streak + 1 ELSE @]
    ELSE [st EXCEPT !.streak = 0]

\* mutant: the question is always made for the first sign of the list
loadCurrentQuestion_First(st) ==
    IF st.currentQuestion + 1 \in 1..Len(st.quizSigns)
    THEN [sign |-> st.quizSigns[1]]
    ELSE currentQuestion

\* what loadCurrentQuestion leaves in the module variable
loadCurrentQuestion(st) ==
    IF st.currentQuestion + 1 \in 1..Len(st.quizSigns)
    THEN [sign |-> st.quizSigns[st.currentQuestion + 1]]
    ELSE currentQuestion

\* mutant: startQuiz resets the clock of the session only
startQuiz_NoReset(random) ==
    /\ state.currentScreen # "quiz"
    /\ IF Len(state.selectedCategories) = 0
       THEN /\ lastCall' = [op |-> "startQuiz", value |-> FALSE]
            /\ UNCHANGED <<state, currentQuestion>>
       ELSE LET started == [state EXCEPT !.quizSigns = selectQuizSigns(state, random),
                                         !.quizStartTime = now,
                                         !.quizEndTime = Null]
            IN  IF Len(started.quizSigns) = 0
                THEN /\ state' = started
                     /\ lastCall' = [op |-> "startQuiz", value |-> FALSE]
                     /\ UNCHANGED currentQuestion
                ELSE /\ state' = [started EXCEPT !.currentScreen = "quiz"]
                     /\ currentQuestion' = [sign |-> started.quizSigns[1]]
                     /\ lastCall' = [op |-> "startQuiz", value |-> TRUE]
    /\ UNCHANGED <<signProgress, now, callCount, correctCount, probe,
                   quizSessions, categoryStats, flow>>

\* startQuiz, and on success the rest of handleStartQuiz
startQuiz(random) ==
    /\ state.currentScreen # "quiz"
    /\ IF Len(state.selectedCategories) = 0
       THEN /\ lastCall' = [op |-> "startQuiz", value |-> FALSE]
            /\ UNCHANGED <<state, currentQuestion>>
       ELSE LET reset == resetQuizState(state)
                started == [reset EXCEPT !.quizSigns = selectQuizSigns(reset, random)]
            IN  IF Len(started.quizSigns) = 0
                THEN /\ state' = started
                     /\ lastCall' = [op |-> "startQuiz", value |-> FALSE]
                     /\ UNCHANGED currentQuestion
                ELSE /\ state' = [started EXCEPT !.currentScreen = "quiz"]
                     /\ currentQuestion' = loadCurrentQuestion(started)
                     /\ lastCall' = [op |-> "startQuiz", value |-> TRUE]
    /\ UNCHANGED <<signProgress, now, callCount, correctCount, probe,
                   quizSessions, categoryStats, flow>>

\* the session fields after checkAnswer's "Update state" and updateStreak
Answered(st, sign, isCorrect) ==
    updateStreak(IF isCorrect
                 THEN [st EXCEPT !.correctAnswers = @ + 1]
                 ELSE [st EXCEPT !.wrongAnswers = Append(@, sign)],
                 isCorrect)

\* checkAnswer for the option the user clicks
checkAnswer(isCorrect, responseTime) ==
    /\ state.currentScreen = "quiz"
    /\ lastCall.op \in {"startQuiz", "nextQuestion"}
    /\ currentQuestion # Null
    /\ callCount[currentQuestion.sign.id] < MaxAttempts
    /\ state' = Answered(state, currentQuestion.sign, isCorrect)
    /\ signProgress' = put(signProgress,
                           UpdatedProgress(currentQuestion.sign.id,
                                           currentQuestion.sign.category,
                                           isCorrect, responseTime))
    /\ callCount' = [callCount EXCEPT ![currentQuestion.sign.id] = @ + 1]
    /\ correctCount' = [correctCount EXCEPT ![currentQuestion.sign.id] =
                            IF isCorrect THEN @ + 1 ELSE @]
    /\ lastCall' = [op |-> "checkAnswer",
                    value |-> [isCorrect |-> isCorrect,
                               responseTime |-> responseTime,
                               streak |-> state'.streak]]
    /\ UNCHANGED <<now, probe, currentQuestion, quizSessions, categoryStats, flow>>


\* mutant: the percentage truncated instead of rounded
Percentage_Truncated(st) ==
    Floor(RMul(Rat(st.correctAnswers, Len(st.quizSigns)), RInt(100)))

\* Math.round((state.correctAnswers / state.quizSigns.length) * 100)
Percentage(st) ==
    RRound(RMul(Rat(st.correctAnswers, Len(st.quizSigns)), RInt(100)))

\* the object finishQuiz passes to saveQuizSession
QuizSession(st) ==
    [categories |-> st.selectedCategories,
     mode |-> st.quizMode,
     difficulty |-> st.difficulty,
     totalQuestions |-> Len(st.quizSigns),
     correctAnswers |-> st.correctAnswers,
     wrongAnswers |-> [i \in 1..Len(st.wrongAnswers) |-> [id |-> st.wrongAnswers[i].id]],
     percentage |-> Percentage(st),
     duration |-> st.quizEndTime - st.quizStartTime,
     bestStreak |-> Max(st.streak, st.bestStreak)]

\* put(STORES.QUIZ_SESSIONS, {...session, date}) under the next key, into
\* the store `sessions` on the day `today`
saveQuizSession(sessions, session, today) ==
    Append(sessions,
           [categories |-> session.categories,
            mode |-> session.mode,
            difficulty |-> session.difficulty,
            totalQuestions |-> session.totalQuestions,
            correctAnswers |-> session.correctAnswers,
            wrongAnswers |-> session.wrongAnswers,
            percentage |-> session.percentage,
            duration |-> session.duration,
            bestStreak |-> session.bestStreak,
            date |-> [day |-> today, order |-> Len(sessions)]])

\* mutant: the counts of the session stored in place of the sums
updateCategoryStats_Overwrite(stored, categoryKey, correct, total, today) ==
    [categoryKey |-> categoryKey,
     totalAttempts |-> total,
     correctAttempts |-> correct,
     lastPracticed |-> today]

\* the record updateCategoryStats puts into the store `stored` on the day
\* `today`
updateCategoryStats(stored, categoryKey, correct, total, today) ==
    LET stats == IF categoryKey \in DOMAIN stored
                 THEN stored[categoryKey]
                 ELSE [categoryKey |-> categoryKey,
                       totalAttempts |-> 0,
                       correctAttempts |-> 0,
                       lastPracticed |-> Null]
    IN  [stats EXCEPT !.totalAttempts = @ + total,
                      !.correctAttempts = @ + correct,
                      !.lastPracticed = today]

\* the CATEGORY_STATS store `stored` after finishQuiz's loop over the
\* categories of the session
StatsAfterSession(stored, st, today) ==
    LET cats == {st.quizSigns[i].category : i \in 1..Len(st.quizSigns)}
        Total(cat) == LET In(s) == s.category = cat IN Len(SelectSeq(st.quizSigns, In))
        Wrong(cat) == LET In(s) == s.category = cat IN Len(SelectSeq(st.wrongAnswers, In))
    IN  [cat \in DOMAIN stored \cup cats |->
            IF cat \in cats
            THEN updateCategoryStats(stored, cat, Total(cat) - Wrong(cat), Total(cat),
                                     today)
            ELSE stored[cat]]

\* finishQuiz, then showResults
finishQuiz(st) ==
    LET ended == [st EXCEPT !.quizEndTime = now]
    IN  /\ state' = [ended EXCEPT !.currentScreen = "results"]
        /\ quizSessions' = saveQuizSession(quizSessions, QuizSession(ended), now)
        /\ categoryStats' = StatsAfterSession(categoryStats, ended, now)

\* handleNextQuestion: nextQuestion, then the next question or the end
nextQuestion ==
    /\ state.currentScreen = "quiz"
    /\ lastCall.op = "checkAnswer"
    /\ LET advanced == [state EXCEPT !.currentQuestion = @ + 1]
           hasMore == advanced.currentQuestion < Len(advanced.quizSigns)
       IN  /\ lastCall' = [op |-> "nextQuestion", value |-> hasMore]
           /\ IF hasMore
              THEN /\ state' = advanced
                   /\ currentQuestion' = loadCurrentQuestion(advanced)
                   /\ UNCHANGED <<quizSessions, categoryStats>>
              ELSE /\ finishQuiz(advanced)
                   /\ UNCHANGED currentQuestion
    /\ UNCHANGED <<signProgress, now, callCount, correctCount, probe, flow>>

(***************************************************************************)
(* The session on its own: a fresh installation, the settings as the user  *)
(* left them, and up to MaxSessions sessions: of one or two questions from  *)
(* the category "priority" in every mode, or of three questions from the   *)
(* categories "priority" and "warning" in the adaptive mode.               *)
(***************************************************************************)
QuizSettings ==
    {[InitialState EXCEPT !.selectedCategories = categories,
                          !.quizMode = mode,
                          !.difficulty = difficulty,
                          !.questionsPerQuiz = count] :
        categories \in {<<>>, <<"priority">>},
        mode \in QuizModes,
        difficulty \in {"adaptive", "hard"},
        count \in {1, 2}}
    \cup {[InitialState EXCEPT !.selectedCategories = <<"priority", "warning">>,
                               !.quizMode = "adaptive",
                               !.difficulty = "adaptive",
                               !.questionsPerQuiz = 3]}

QuizInit ==
    /\ signProgress = <<>>
    /\ now = 0
    /\ callCount = [s \in CatalogIds |-> 0]
    /\ correctCount = [s \in CatalogIds |-> 0]
    /\ probe = NoProbe
    /\ state \in QuizSettings
    /\ currentQuestion = Null
    /\ quizSessions = <<>>
    /\ categoryStats = <<>>
    /\ lastCall = NoCall
    /\ flow = NoFlow

QuizNext ==
    \/ /\ Len(quizSessions) < MaxSessions
       /\ \E random \in RandomStreams(Len(ShuffleInput(state))) : startQuiz(random)
    \/ \E isCorrect \in BOOLEAN, responseTime \in QuizResponseTimes :
          checkAnswer(isCorrect, responseTime)
    \/ nextQuestion
    \/ Tick

QuizSpec == QuizInit /\ [][QuizNext]_vars

(***************************************************************************)
(* The selection on its own: an installation with a past, the settings as  *)
(* the user left them, and one startQuiz.  The past is up to three         *)
(* sessions, two on day 0 and one on day 1, in which every sign went one   *)
(* of five ways; the stores hold what checkAnswer and finishQuiz wrote in  *)
(* those sessions.                                                         *)
(***************************************************************************)
PastAnswer(isCorrect, session) == [isCorrect |-> isCorrect, session |-> session]

PastSessions == 1..3
PastDay(session) == IF session = 3 THEN 1 ELSE 0

\* the ways of a sign through the past sessions
History(kind) ==
    CASE kind = "new" -> <<>>
      [] kind = "missed" -> <<PastAnswer(FALSE, 3)>>
      [] kind = "mastered" -> <<PastAnswer(TRUE, 1), PastAnswer(TRUE, 2)>>
      [] kind = "failing" -> <<PastAnswer(FALSE, 1), PastAnswer(FALSE, 2)>>
      [] kind = "shaky" -> <<PastAnswer(TRUE, 1), PastAnswer(FALSE, 2)>>

HistoryKinds == {"new", "missed", "mastered", "failing", "shaky"}

\* the first two signs go any way, the other signs all the same way
Pasts ==
    {[id \in CatalogIds |-> IF id = "A1" THEN first
                            ELSE IF id = "A2" THEN second ELSE others] :
        first \in HistoryKinds, second \in HistoryKinds,
        others \in {"new", "missed", "failing"}}

PastResponseTime == 2000

AllSigns == CategoryCandidates(<<"warning", "priority">>)

\* the record of a sign after the answers of its history
RECURSIVE ProgressOf(_, _)
ProgressOf(sign, history) ==
    IF history = <<>> THEN DefaultProgress(sign.id, sign.category)
    ELSE LET answer == history[Len(history)]
         IN  ProgressAfter(ProgressOf(sign, SubSeq(history, 1, Len(history) - 1)),
                           answer.isCorrect, PastResponseTime, PastDay(answer.session))

PastProgress(past) ==
    [id \in {i \in CatalogIds : History(past[i]) # <<>>} |->
        LET sign == CHOOSE s \in {AllSigns[k] : k \in 1..Len(AllSigns)} : s.id = id
        IN  ProgressOf(sign, History(past[id]))]

\* the signs of a past session, and whether a sign was answered correctly in it
InSession(past, session, sign) ==
    \E k \in 1..Len(History(past[sign.id])) : History(past[sign.id])[k].session = session

CorrectIn(past, session, sign) ==
    \E k \in 1..Len(History(past[sign.id])) :
        History(past[sign.id])[k] = PastAnswer(TRUE, session)

\* the session fields after the answers to the signs quizSigns[from..]
RECURSIVE Played(_, _, _, _)
Played(st, past, session, from) ==
    IF from > Len(st.quizSigns) THEN st
    ELSE Played(Answered(st, st.quizSigns[from],
                         CorrectIn(past, session, st.quizSigns[from])),
                past, session, from + 1)

\* state, quizSessions and categoryStats after the past sessions from..3
RECURSIVE AfterPast(_, _, _)
AfterPast(installed, past, session) ==
    IF session \notin PastSessions THEN installed
    ELSE LET In(sign) == InSession(past, session, sign)
             signs == SelectSeq(AllSigns, In)
             started == [installed.state EXCEPT !.quizSigns = signs,
                                                !.currentQuestion = 0,
                                                !.correctAnswers = 0,
                                                !.streak = 0,
                                                !.wrongAnswers = <<>>,
                                                !.quizStartTime = PastDay(session),
                                                !.quizEndTime = Null]
             played == Played(started, past, session, 1)
             ended == [played EXCEPT !.currentQuestion = Len(signs),
                                     !.quizEndTime = PastDay(session),
                                     !.currentScreen = "results"]
         IN  IF signs = <<>> THEN AfterPast(installed, past, session + 1)
             ELSE AfterPast(
                      [state |-> ended,
                       quizSessions |-> saveQuizSession(installed.quizSessions,
                                                        QuizSession(ended),
                                                        PastDay(session)),
                       categoryStats |-> StatsAfterSession(installed.categoryStats,
                                                           ended, PastDay(session))],
                      past, session + 1)

Installed(past) ==
    AfterPast([state |-> [InitialState EXCEPT
                              !.selectedCategories = <<"warning", "priority">>,
                              !.questionsPerQuiz = Len(AllSigns)],
               quizSessions |-> <<>>,
               categoryStats |-> <<>>],
              past, 1)

\* the settings of the selection, on the application as it loads after the
\* past: loadSettings restores bestStreak, the session fields start empty
SelectSettings(bestStreak) ==
    {[InitialState EXCEPT !.selectedCategories = categories,
                          !.quizMode = mode,
                          !.difficulty = difficulty,
                          !.questionsPerQuiz = count,
                          !.bestStreak = bestStreak] :
        categories \in {<<>>, <<"warning">>, <<"priority", "warning">>},
        mode \in QuizModes,
        difficulty \in Difficulties,
        count \in 1..MaxCount}

SelectInit ==
    \E past \in Pasts :
        LET installed == Installed(past)
            Correct(id) == LET Is(answer) == answer.isCorrect
                           IN  Len(SelectSeq(History(past[id]), Is))
        IN  /\ now \in 1..MaxDay
            /\ signProgress = PastProgress(past)
            /\ callCount = [id \in CatalogIds |-> Len(History(past[id]))]
            /\ correctCount = [id \in CatalogIds |-> Correct(id)]
            /\ probe = NoProbe
            /\ currentQuestion = Null
            /\ quizSessions = installed.quizSessions
            /\ categoryStats = installed.categoryStats
            /\ lastCall = NoCall
            /\ flow = NoFlow
            /\ state \in SelectSettings(installed.state.bestStreak)

SelectNext ==
    \E random \in RandomStreams(Len(ShuffleInput(state))) : startQuiz(random)

SelectSpec == SelectInit /\ [][SelectNext]_vars

(***************************************************************************)
(* Claims about the selection.  They read the state right after a          *)
(* startQuiz that reached selectQuizSigns: the stores and the clock are    *)
(* those the selection read, state.quizSigns is the list it returned.      *)
(***************************************************************************)
Selected == lastCall.op = "startQuiz" /\ Len(state.selectedCategories) > 0

SelectedIn(mode) == Selected /\ state.quizMode = mode

\* the sign passes the difficulty filter
Passes(sign, difficulty) ==
    LET d == IF sign.difficulty = 0 THEN 2 ELSE sign.difficulty
    IN  \/ difficulty = "adaptive"
        \/ difficulty = "easy" /\ d \in 1..2
        \/ difficulty = "medium" /\ d \in 2..4
        \/ difficulty = "hard" /\ d \in 3..5

\* the ids of the candidate pool
PoolIds ==
    {id \in CatalogIds :
        \E k \in 1..Len(state.selectedCategories) :
            \E i \in 1..Len(signData[state.selectedCategories[k]]) :
                /\ signData[state.selectedCategories[k]][i].id = id
                /\ Passes(signData[state.selectedCategories[k]][i], state.difficulty)}

\* the ids the mode selects before any fallback
PrimaryIds ==
    CASE state.quizMode = "missed" ->
           IF quizSessions = <<>> THEN {}
           ELSE Ids(getLatestQuizSession.wrongAnswers) \cap PoolIds
      [] state.quizMode = "weakest" ->
           SignIdsOf(getWeakestSigns(state.questionsPerQuiz)) \cap PoolIds
      [] state.quizMode = "spaced" ->
           SignIdsOf(getDueForReview(state.questionsPerQuiz * 2)) \cap PoolIds
      [] OTHER -> {}

\* the position of the sign `id` in the selected list, 0 when it is not in it
PositionOf(id) ==
    IF id \in Ids(state.quizSigns)
    THEN CHOOSE i \in 1..Len(state.quizSigns) : state.quizSigns[i].id = id
    ELSE 0

\* C11: in every mode the selected list holds no id twice and only signs of
\* the candidate pool; every primary sign is in the list, and the fallback
\* signs come after the primary ones
C11_SelectionFromPool ==
    Selected =>
        /\ \A i, j \in 1..Len(state.quizSigns) :
               state.quizSigns[i].id = state.quizSigns[j].id => i = j
        /\ Ids(state.quizSigns) \subseteq PoolIds
        /\ PrimaryIds \subseteq Ids(state.quizSigns)
        /\ \A i, j \in 1..Len(state.quizSigns) :
               /\ state.quizSigns[i].id \in PrimaryIds
               /\ state.quizSigns[j].id \notin PrimaryIds
               => i < j

\* a fallback filled the list behind a primary sign
C11_Witness ==
    /\ SelectedIn("weakest")
    /\ PrimaryIds # {}
    /\ Ids(state.quizSigns) \ PrimaryIds # {}

\* C12: in 'missed' mode, when fewer than questionsPerQuiz candidates are
\* in the latest session's wrong answers and the pool has at least
\* questionsPerQuiz signs, the selected list has exactly questionsPerQuiz
\* signs, no id twice, and holds all the missed candidates.
C12_MissedFills ==
    LET inScope == /\ Cardinality(PrimaryIds) < state.questionsPerQuiz
                   /\ Cardinality(PoolIds) >= state.questionsPerQuiz
        filled == /\ Len(state.quizSigns) = state.questionsPerQuiz
                  /\ Cardinality(Ids(state.quizSigns)) = Len(state.quizSigns)
                  /\ PrimaryIds \subseteq Ids(state.quizSigns)
    IN  (SelectedIn("missed") /\ inScope) => filled

\* the accuracy of the stored record of a sign
Accuracy(id) == Rat(signProgress[id].correctAttempts, signProgress[id].totalAttempts)

\* the place of an id in the key order of the stores
KeyIndex(id) == CHOOSE i \in 1..Len(KeyOrder) : KeyOrder[i] = id

\* the records with at least 2 attempts, and the order getWeakestSigns
\* lists them in
Attempted2 == {id \in DOMAIN signProgress : signProgress[id].totalAttempts >= 2}

WeakerThan(a, b) ==
    \/ RLt(Accuracy(a), Accuracy(b))
    \/ Accuracy(a) = Accuracy(b) /\ KeyIndex(a) < KeyIndex(b)

\* the candidates among the questionsPerQuiz weakest records
WeakestInPool ==
    {id \in Attempted2 \cap PoolIds :
        Cardinality({b \in Attempted2 : WeakerThan(b, id)}) < state.questionsPerQuiz}

\* the sign `a` precedes the sign `b` in the candidate pool
PoolBefore(a, b) ==
    \E k, l \in 1..Len(state.selectedCategories) :
        \E i \in 1..Len(signData[state.selectedCategories[k]]),
           j \in 1..Len(signData[state.selectedCategories[l]]) :
            /\ signData[state.selectedCategories[k]][i].id = a
            /\ signData[state.selectedCategories[l]][j].id = b
            /\ (k < l \/ (k = l /\ i < j))

\* the selected list is `primary` first, then other signs of the pool, no id
\* twice, min(questionsPerQuiz, pool size) signs when primary has no more
FilledBehind(primary) ==
    /\ Cardinality(primary) <= Len(state.quizSigns)
    /\ Ids(SubSeq(state.quizSigns, 1, Cardinality(primary))) = primary
    /\ Ids(state.quizSigns) \subseteq PoolIds
    /\ Cardinality(Ids(state.quizSigns)) = Len(state.quizSigns)
    /\ Cardinality(primary) <= state.questionsPerQuiz
       => Len(state.quizSigns) = Min(state.questionsPerQuiz, Cardinality(PoolIds))

\* C13 as stated: in 'weakest' mode the primary part of the list is the
\* weakest candidates with at least 2 attempts, at most questionsPerQuiz
\* of them, in ascending order of accuracy, and the rest is filled from
\* the pool.
C13_AsStated ==
    SelectedIn("weakest") =>
        /\ FilledBehind(WeakestInPool)
        /\ \A i, j \in 1..Cardinality(WeakestInPool) :
               i < j => RLe(Accuracy(state.quizSigns[i].id),
                            Accuracy(state.quizSigns[j].id))

\* C13 amended: in 'weakest' mode the primary part of the list is the
\* candidates among the questionsPerQuiz records of lowest accuracy with at
\* least 2 attempts, in the order of the candidate pool, and the rest is
\* filled from the pool with signs not selected yet.
C13_WeakestInPoolOrder ==
    SelectedIn("weakest") =>
        /\ FilledBehind(WeakestInPool)
        /\ \A i, j \in 1..Cardinality(WeakestInPool) :
               i < j => PoolBefore(state.quizSigns[i].id, state.quizSigns[j].id)

\* two weakest candidates are selected, the first of higher accuracy than
\* the second, and a fill follows them
C13_Witness ==
    /\ SelectedIn("weakest")
    /\ Cardinality(WeakestInPool) = 2
    /\ Len(state.quizSigns) > 2
    /\ RLt(Accuracy(state.quizSigns[2].id), Accuracy(state.quizSigns[1].id))

\* the records due for review, and the order the nextReviewDate index
\* lists them in
DueIds == {id \in DOMAIN signProgress : signProgress[id].nextReviewDate <= now}

DueEarlier(a, b) ==
    \/ signProgress[a].nextReviewDate < signProgress[b].nextReviewDate
    \/ /\ signProgress[a].nextReviewDate = signProgress[b].nextReviewDate
       /\ KeyIndex(a) < KeyIndex(b)

\* the candidates among the first 2 * questionsPerQuiz records due
DueInPool ==
    {id \in DueIds \cap PoolIds :
        Cardinality({b \in DueIds : DueEarlier(b, id)}) < 2 * state.questionsPerQuiz}

\* the candidates without a record
NewInPool == PoolIds \ DOMAIN signProgress

\* C14 as stated: in 'spaced' mode the list starts with the due candidates
\* and, when these are fewer than questionsPerQuiz, is filled with new
\* candidates and then with any other candidates, so that it has
\* questionsPerQuiz signs whenever the pool has that many.
C14_AsStated ==
    SelectedIn("spaced") =>
        /\ Cardinality(DueInPool) <= Len(state.quizSigns)
        /\ Ids(SubSeq(state.quizSigns, 1, Cardinality(DueInPool))) = DueInPool
        /\ Cardinality(PoolIds) >= state.questionsPerQuiz
           => Len(state.quizSigns) = state.questionsPerQuiz

\* C14 amended: in 'spaced' mode the list is all the due candidates (those
\* among the first 2 * questionsPerQuiz due records) and, when these are
\* fewer than questionsPerQuiz, new candidates behind them up to
\* questionsPerQuiz signs; no other candidate is ever added.
C14_SpacedDueThenNew ==
    SelectedIn("spaced") =>
        /\ Cardinality(DueInPool) <= Len(state.quizSigns)
        /\ Ids(SubSeq(state.quizSigns, 1, Cardinality(DueInPool))) = DueInPool
        /\ Cardinality(Ids(state.quizSigns)) = Len(state.quizSigns)
        /\ Ids(state.quizSigns) \subseteq DueInPool \cup NewInPool
        /\ Len(state.quizSigns) =
               IF Cardinality(DueInPool) >= state.questionsPerQuiz
               THEN Cardinality(DueInPool)
               ELSE Min(state.questionsPerQuiz,
                        Cardinality(DueInPool) + Cardinality(NewInPool))

\* due and new candidates are selected and the list stays short of
\* questionsPerQuiz although the pool has that many signs
C14_Witness ==
    /\ SelectedIn("spaced")
    /\ DueInPool # {}
    /\ Ids(state.quizSigns) \cap NewInPool # {}
    /\ Len(state.quizSigns) < state.questionsPerQuiz
    /\ Cardinality(PoolIds) >= state.questionsPerQuiz

\* five times the score of a candidate: 100 - retention when it has a
\* record and is due, 50 without a record, 20 - 0.2 * retention otherwise
Score5(id) ==
    IF id \notin DOMAIN signProgress THEN 250
    ELSE IF signProgress[id].nextReviewDate <= now
         THEN 500 - 5 * getRetentionScore(signProgress[id])
         ELSE 100 - getRetentionScore(signProgress[id])

\* C15: in 'adaptive' mode the list is min(questionsPerQuiz, pool size)
\* candidates in descending order of score, no candidate left out scores
\* higher than a selected one, and nothing else is added.
C15_AdaptiveByScore ==
    SelectedIn("adaptive") =>
        /\ Len(state.quizSigns) = Min(state.questionsPerQuiz, Cardinality(PoolIds))
        /\ Cardinality(Ids(state.quizSigns)) = Len(state.quizSigns)
        /\ Ids(state.quizSigns) \subseteq PoolIds
        /\ \A i, j \in 1..Len(state.quizSigns) :
               i < j => Score5(state.quizSigns[i].id) >= Score5(state.quizSigns[j].id)
        /\ \A id \in PoolIds \ Ids(state.quizSigns) :
               \A i \in 1..Len(state.quizSigns) :
                   Score5(state.quizSigns[i].id) >= Score5(id)

\* a due sign, a new sign and a known sign that is not due are selected in
\* this order, and a candidate is left out
C15_Witness ==
    /\ SelectedIn("adaptive")
    /\ Len(state.quizSigns) < Cardinality(PoolIds)
    /\ \E i, j, k \in 1..Len(state.quizSigns) :
           /\ i < j /\ j < k
           /\ state.quizSigns[i].id \in DueIds
           /\ state.quizSigns[j].id \notin DOMAIN signProgress
           /\ state.quizSigns[k].id \in DOMAIN signProgress \ DueIds

\* the candidate `a` ranks before the candidate `b`: higher score, or equal
\* score and earlier in the pool
RanksBefore(a, b) ==
    \/ Score5(a) > Score5(b)
    \/ Score5(a) = Score5(b) /\ PoolBefore(a, b)

\* C16: the list of 'adaptive' mode is fixed by the pool, questionsPerQuiz,
\* the stored records and the clock alone: each selected sign ranks before
\* the next one and before every candidate left out, where candidates of
\* equal score rank in their pool order.
C16_AdaptiveTieBreak ==
    SelectedIn("adaptive") =>
        /\ Len(state.quizSigns) = Min(state.questionsPerQuiz, Cardinality(PoolIds))
        /\ \A i, j \in 1..Len(state.quizSigns) :
               i < j => RanksBefore(state.quizSigns[i].id, state.quizSigns[j].id)
        /\ \A id \in PoolIds \ Ids(state.quizSigns) :
               \A i \in 1..Len(state.quizSigns) :
                   RanksBefore(state.quizSigns[i].id, id)

\* two selected signs have equal score, and a third sign of that score is
\* left out
C16_Witness ==
    /\ SelectedIn("adaptive")
    /\ \E i, j \in 1..Len(state.quizSigns) :
           /\ i < j
           /\ Score5(state.quizSigns[i].id) = Score5(state.quizSigns[j].id)
           /\ \E id \in PoolIds \ Ids(state.quizSigns) :
                  Score5(id) = Score5(state.quizSigns[j].id)

(***************************************************************************)
(* Claims about the session.                                               *)
(***************************************************************************)
\* isQuizComplete()
isQuizComplete == state.currentQuestion >= Len(state.quizSigns)

AnswerStep == lastCall.op # "checkAnswer" /\ lastCall'.op = "checkAnswer"

\* what a checkAnswer step does to the session fields and to the store
AnswerEffect ==
    LET sign == currentQuestion.sign
        attemptsBefore == IF sign.id \in DOMAIN signProgress
                          THEN signProgress[sign.id].totalAttempts ELSE 0
    IN  /\ lastCall'.value.isCorrect
           => /\ state'.correctAnswers = state.correctAnswers + 1
              /\ state'.streak = state.streak + 1
              /\ state'.bestStreak = Max(state.bestStreak, state.streak + 1)
              /\ state'.wrongAnswers = state.wrongAnswers
        /\ ~lastCall'.value.isCorrect
           => /\ state'.correctAnswers = state.correctAnswers
              /\ state'.streak = 0
              /\ state'.bestStreak = state.bestStreak
              /\ state'.wrongAnswers = Append(state.wrongAnswers, sign)
        /\ callCount' = [callCount EXCEPT ![sign.id] = @ + 1]
        /\ signProgress'[sign.id].totalAttempts = attemptsBefore + 1
        /\ \A id \in DOMAIN signProgress \ {sign.id} :
               signProgress'[id] = signProgress[id]

\* C18: a correct answer adds 1 to correctAnswers and to streak and raises
\* bestStreak to streak when streak exceeds it; an incorrect answer sets
\* streak to 0, appends the sign to wrongAnswers and leaves correctAnswers;
\* both record one updateWithSM2 call for the sign.  streak <= bestStreak
\* holds in every state.
C18_AnswerEffect ==
    /\ [](state.streak <= state.bestStreak)
    /\ [][AnswerStep => AnswerEffect]_vars

\* a correct answer in a second session: streak 1 under a best streak of 2
C18_Witness ==
    /\ lastCall.op = "checkAnswer"
    /\ lastCall.value.isCorrect
    /\ state.streak = 1
    /\ state.bestStreak = 2
    /\ Len(state.wrongAnswers) = 0

\* the step is a nextQuestion
AdvanceStep == lastCall.op = "checkAnswer" /\ lastCall'.op = "nextQuestion"

\* what the advance number state'.currentQuestion of a session does
AdvanceEffect ==
    /\ state'.currentQuestion = state.currentQuestion + 1
    /\ state'.currentQuestion <= Len(state.quizSigns)
    /\ state'.quizSigns = state.quizSigns
    /\ lastCall'.value = (state'.currentQuestion < Len(state.quizSigns))
    /\ lastCall'.value = TRUE
       => /\ state'.currentScreen = "quiz"
          /\ currentQuestion' = [sign |-> state.quizSigns[state'.currentQuestion + 1]]
          /\ quizSessions' = quizSessions
    /\ lastCall'.value = FALSE
       => /\ state'.currentScreen = "results"
          /\ Len(quizSessions') = Len(quizSessions) + 1

\* C19: in a session of n signs nextQuestion returns true on the advances
\* 1..n-1 and false on advance n; the session is active (on the quiz
\* screen, not complete, the sign at the position on display, waiting for
\* its answer or for the advance) until advance n and finished by it.
C19_AdvanceResults ==
    /\ [](state.currentScreen = "quiz"
            => /\ ~isQuizComplete
               /\ currentQuestion = [sign |-> state.quizSigns[state.currentQuestion + 1]]
               /\ lastCall.op \in {"startQuiz", "checkAnswer", "nextQuestion"})
    /\ [](state.currentScreen = "results" => isQuizComplete)
    /\ [][AdvanceStep => AdvanceEffect]_vars

\* the second advance of a session of two signs returned false
C19_Witness ==
    /\ lastCall = [op |-> "nextQuestion", value |-> FALSE]
    /\ Len(state.quizSigns) = 2
    /\ state.currentQuestion = 2
    /\ state.currentScreen = "results"

\* the step in which nextQuestion returns false and finishQuiz runs
FinishStep == AdvanceStep /\ lastCall'.value = FALSE

\* p is 100 * c / t rounded to the nearest integer, a half rounded up
IsRoundedPercentage(p, c, t) ==
    /\ p \in 0..100
    /\ 2 * p * t <= 200 * c + t
    /\ 200 * c + t < 2 * (p + 1) * t

\* what the finishing step appends to the store of sessions
FinishEffect ==
    LET saved == quizSessions'[Len(quizSessions')]
    IN  /\ Len(quizSessions') = Len(quizSessions) + 1
        /\ SubSeq(quizSessions', 1, Len(quizSessions)) = quizSessions
        /\ saved.totalQuestions = Len(state.quizSigns)
        /\ saved.correctAnswers = state.correctAnswers
        /\ Len(saved.wrongAnswers) = Len(state.wrongAnswers)
        /\ \A i \in 1..Len(state.wrongAnswers) :
               saved.wrongAnswers[i].id = state.wrongAnswers[i].id
        /\ IsRoundedPercentage(saved.percentage, state.correctAnswers,
                               Len(state.quizSigns))

\* the session just saved on a fresh installation: its counts against the
\* history of the answers given
FirstSessionSaved ==
    (Len(quizSessions) = 1 /\ lastCall = [op |-> "nextQuestion", value |-> FALSE])
    => LET saved == quizSessions[1]
       IN  /\ saved.totalQuestions = Cardinality({id \in CatalogIds : callCount[id] = 1})
           /\ saved.correctAnswers = Cardinality({id \in CatalogIds : correctCount[id] = 1})
           /\ {saved.wrongAnswers[i].id : i \in 1..Len(saved.wrongAnswers)}
                  = {id \in CatalogIds : callCount[id] = 1 /\ correctCount[id] = 0}

InCategory(signs, cat) ==
    Cardinality({i \in 1..Len(signs) : signs[i].category = cat})

\* the stored statistics of `cat`, zero when there is no record
StatOf(stored, cat) ==
    IF cat \in DOMAIN stored
    THEN [totalAttempts |-> stored[cat].totalAttempts,
          correctAttempts |-> stored[cat].correctAttempts]
    ELSE [totalAttempts |-> 0, correctAttempts |-> 0]

RECURSIVE SumOver(_, _)
SumOver(count, ids) ==
    IF ids = {} THEN 0
    ELSE LET id == CHOOSE x \in ids : TRUE
         IN  count[id] + SumOver(count, ids \ {id})

\* what the finishing step does to the store of category statistics
StatsEffect ==
    /\ DOMAIN categoryStats' \subseteq CategoryKeys
    /\ \A cat \in CategoryKeys :
          LET items == InCategory(state.quizSigns, cat)
              wrong == InCategory(state.wrongAnswers, cat)
          IN  IF items > 0
              THEN /\ cat \in DOMAIN categoryStats'
                   /\ categoryStats'[cat].categoryKey = cat
                   /\ categoryStats'[cat].totalAttempts
                         = StatOf(categoryStats, cat).totalAttempts + items
                   /\ categoryStats'[cat].correctAttempts
                         = StatOf(categoryStats, cat).correctAttempts + items - wrong
              ELSE /\ (cat \in DOMAIN categoryStats') = (cat \in DOMAIN categoryStats)
                   /\ cat \in DOMAIN categoryStats
                       => categoryStats'[cat] = categoryStats[cat]

\* right after a session is finished the statistics of every category are
\* the sums of the answers given to its signs
StatsMatchHistory ==
    lastCall = [op |-> "nextQuestion", value |-> FALSE]
    => \A cat \in CategoryKeys :
          LET ids == Ids(CategorySigns(cat))
          IN  /\ StatOf(categoryStats, cat).totalAttempts = SumOver(callCount, ids)
              /\ StatOf(categoryStats, cat).correctAttempts = SumOver(correctCount, ids)

\* C21: finishQuiz adds, for every category with signs in the session, the
\* number of its signs in the session to the stored totalAttempts and that
\* number less its wrong answers to the stored correctAttempts; the record
\* of a category without signs in the session is left as it was.
C21_CategoryStatsAccumulate ==
    /\ []StatsMatchHistory
    /\ [][FinishStep => StatsEffect]_vars

\* a second session of three "warning" signs with one wrong answer has
\* added 3 and 2 to the statistics of "warning" and left "priority" alone
C21_Witness ==
    /\ lastCall = [op |-> "nextQuestion", value |-> FALSE]
    /\ Len(quizSessions) = 2
    /\ InCategory(state.quizSigns, "warning") = 3
    /\ InCategory(state.wrongAnswers, "warning") = 1
    /\ DOMAIN categoryStats = {"priority", "warning"}
    /\ categoryStats["warning"].totalAttempts = 4
    /\ categoryStats["priority"].totalAttempts = 2

\* the step is a startQuiz that returns true
StartStep ==
    /\ lastCall # [op |-> "startQuiz", value |-> TRUE]
    /\ lastCall' = [op |-> "startQuiz", value |-> TRUE]

\* the session fields after it, whatever they were before
StartEffect ==
    /\ state'.currentQuestion = 0
    /\ state'.correctAnswers = 0
    /\ state'.streak = 0
    /\ state'.wrongAnswers = <<>>
    /\ state'.quizStartTime = now
    /\ state'.quizEndTime = Null
    /\ Len(state'.quizSigns) > 0
    /\ \A i, j \in 1..Len(state'.quizSigns) :
          state'.quizSigns[i].id = state'.quizSigns[j].id => i = j
    /\ \E random \in RandomStreams(Len(ShuffleInput(state))) :
          state'.quizSigns
             = selectQuizSigns([state' EXCEPT !.quizSigns = <<>>], random)
    /\ currentQuestion' = [sign |-> state'.quizSigns[1]]

\* C23: a startQuiz that returns true leaves currentQuestion = 0,
\* correctAnswers = 0, streak = 0, wrongAnswers empty, quizEndTime null and
\* in quizSigns the signs selected by this call only, whatever the session
\* fields were before the call.
C23_StartIsFresh ==
    [][StartStep => StartEffect]_vars

\* a second session started after a first one of two signs with a correct
\* and a wrong answer
C23_Witness ==
    /\ lastCall = [op |-> "startQuiz", value |-> TRUE]
    /\ Len(quizSessions) = 1
    /\ quizSessions[1].correctAnswers = 1
    /\ Len(quizSessions[1].wrongAnswers) = 1
    /\ state.correctAnswers = 0
    /\ state.wrongAnswers = <<>>
    /\ state.quizEndTime = Null

\* what the record `session` shows of the longest run `best` of correct
\* answers in its session: no longer than the correct answers are many, all
\* of them when no answer was wrong, and long enough for the correct
\* answers to fit between the wrong ones
IsSessionBest(best, session) ==
    LET correct == session.correctAnswers
        wrong == Len(session.wrongAnswers)
    IN  /\ best \in 0..correct
        /\ best <= session.totalQuestions
        /\ wrong = 0 => best = correct
        /\ best * (wrong + 1) >= correct

\* C24: the bestStreak of every stored session is the longest run of
\* correct answers of that session, so at most its number of correct
\* answers and at most its totalQuestions.
C24_SessionBestStreak ==
    \A i \in 1..Len(quizSessions) :
        IsSessionBest(quizSessions[i].bestStreak, quizSessions[i])

(***************************************************************************)
(* The page as an event loop.  A click runs its handler up to the first    *)
(* await on the store; the handler then waits in flow.inFlight, the queue  *)
(* of the store's pending requests, until the store answers its request    *)
(* (resolved or rejected) and runs on to its next request or to its end.   *)
(* No handler of app.js catches a rejection: a rejected request ends the   *)
(* handler where it waits.                                                 *)
(***************************************************************************)
MaxStarts == 1
MaxInFlight == 2
MaxRejections == 1

\* the object store a waiting handler's request is on
StoreOf(h) ==
    CASE h.handler = "handleAnswer" -> "signProgress"
      [] h.at = "saveQuizSession" -> "quizSessions"
      [] OTHER -> "categoryStats"

\* IndexedDB runs the transactions on one object store in the order of
\* their creation: request i is answered only after the earlier ones on
\* its store
Answerable(i) ==
    /\ i \in 1..Len(flow.inFlight)
    /\ \A j \in 1..(i - 1) : StoreOf(flow.inFlight[j]) # StoreOf(flow.inFlight[i])

RemoveAt(queue, i) ==
    SubSeq(queue, 1, i - 1) \o SubSeq(queue, i + 1, Len(queue))

\* Object.keys(categoryTotal): the categories of `signs` in the order of
\* their first sign
RECURSIVE CategoriesOf(_)
CategoriesOf(signs) ==
    IF signs = <<>> THEN <<>>
    ELSE LET front == CategoriesOf(Slice(signs, Len(signs) - 1))
             cat == signs[Len(signs)].category
         IN  IF \E i \in 1..Len(front) : front[i] = cat
             THEN front ELSE Append(front, cat)

\* handleStartQuiz: startQuiz and, when it succeeds, showScreen('quiz') and
\* renderQuestion
handleStartQuiz(random) ==
    /\ state.currentScreen # "quiz"
    /\ flow.inFlight = <<>>
    /\ Len(state.selectedCategories) > 0
    /\ LET reset == resetQuizState(state)
           started == [reset EXCEPT !.quizSigns = selectQuizSigns(reset, random)]
       IN  IF Len(started.quizSigns) = 0
           THEN /\ state' = started
                /\ lastCall' = [op |-> "startQuiz", value |-> FALSE]
                /\ UNCHANGED <<currentQuestion, flow>>
           ELSE /\ state' = [started EXCEPT !.currentScreen = "quiz"]
                /\ currentQuestion' = loadCurrentQuestion(started)
                /\ lastCall' = [op |-> "startQuiz", value |-> TRUE]
                /\ flow' = [flow EXCEPT !.nextBtn = FALSE,
                                        !.optionsDisabled = FALSE,
                                        !.started = @ + 1]
    /\ UNCHANGED <<signProgress, now, callCount, correctCount, probe,
                   quizSessions, categoryStats>>

\* mutant: the session fields are left for after the store's answer
handleAnswer_Unapplied(isCorrect, responseTime) ==
    /\ state.currentScreen = "quiz"
    /\ ~flow.optionsDisabled
    /\ currentQuestion # Null
    /\ callCount[currentQuestion.sign.id] < MaxAttempts
    /\ Len(flow.inFlight) < MaxInFlight
    /\ flow' = [flow EXCEPT !.optionsDisabled = TRUE,
                            !.inFlight = Append(@, [handler |-> "handleAnswer",
                                                    at |-> "get",
                                                    sign |-> currentQuestion.sign,
                                                    isCorrect |-> isCorrect,
                                                    responseTime |-> responseTime])]
    /\ UNCHANGED <<signProgress, now, callCount, correctCount, probe, state,
                   currentQuestion, quizSessions, categoryStats, lastCall>>

\* handleAnswer up to the first await of checkAnswer: the options are
\* disabled, the session fields updated, and updateWithSM2 asks the store
\* for the sign's record
handleAnswer(isCorrect, responseTime) ==
    /\ state.currentScreen = "quiz"
    /\ ~flow.optionsDisabled
    /\ currentQuestion # Null
    /\ callCount[currentQuestion.sign.id] < MaxAttempts
    /\ Len(flow.inFlight) < MaxInFlight
    /\ state' = Answered(state, currentQuestion.sign, isCorrect)
    /\ flow' = [flow EXCEPT !.optionsDisabled = TRUE,
                            !.inFlight = Append(@, [handler |-> "handleAnswer",
                                                    at |-> "get",
                                                    sign |-> currentQuestion.sign,
                                                    isCorrect |-> isCorrect,
                                                    responseTime |-> responseTime])]
    /\ UNCHANGED <<signProgress, now, callCount, correctCount, probe,
                   currentQuestion, quizSessions, categoryStats, lastCall>>

\* handleNextQuestion up to the first await: nextQuestion, then
\* renderQuestion or finishQuiz as far as saveQuizSession's request
handleNextQuestion ==
    /\ state.currentScreen = "quiz"
    /\ flow.nextBtn
    /\ Len(flow.inFlight) < MaxInFlight
    /\ LET advanced == [state EXCEPT !.currentQuestion = @ + 1]
           hasMore == advanced.currentQuestion < Len(advanced.quizSigns)
           ended == [advanced EXCEPT !.quizEndTime = now]
       IN  /\ lastCall' = [op |-> "nextQuestion", value |-> hasMore]
           /\ IF hasMore
              THEN /\ state' = advanced
                   /\ currentQuestion' = loadCurrentQuestion(advanced)
                   /\ flow' = [flow EXCEPT !.nextBtn = FALSE,
                                           !.optionsDisabled = FALSE]
              ELSE /\ state' = ended
                   /\ flow' = [flow EXCEPT !.inFlight =
                                  Append(@, [handler |-> "handleNextQuestion",
                                             at |-> "saveQuizSession",
                                             session |-> QuizSession(ended),
                                             today |-> now])]
                   /\ UNCHANGED currentQuestion
    /\ UNCHANGED <<signProgress, now, callCount, correctCount, probe,
                   quizSessions, categoryStats>>

\* a rejected request: the awaiting call `op` rejects, and so does the
\* handler, which ends there
Rejected(i, op) ==
    /\ flow.rejections < MaxRejections
    /\ flow' = [flow EXCEPT !.inFlight = RemoveAt(@, i), !.rejections = @ + 1]
    /\ lastCall' = [op |-> "rejected", of |-> op, at |-> flow.inFlight[i].at]
    /\ UNCHANGED <<signProgress, now, callCount, correctCount, probe, state,
                   currentQuestion, quizSessions, categoryStats>>

\* the handler at the head of request i goes on to wait for the request of `h`
Requeued(i, h) == [flow EXCEPT !.inFlight = Append(RemoveAt(@, i), h)]

\* updateWithSM2 after `await get`: the record is computed and put
updateWithSM2Read(i, ok) ==
    /\ Answerable(i)
    /\ flow.inFlight[i].handler = "handleAnswer"
    /\ flow.inFlight[i].at = "get"
    /\ LET h == flow.inFlight[i]
           progress == IF HasProgress(h.sign.id) THEN signProgress[h.sign.id]
                       ELSE DefaultProgress(h.sign.id, h.sign.category)
       IN  IF ok
           THEN /\ flow' = Requeued(i, [handler |-> "handleAnswer",
                                        at |-> "put",
                                        sign |-> h.sign,
                                        isCorrect |-> h.isCorrect,
                                        responseTime |-> h.responseTime,
                                        record |-> ProgressAfter(progress, h.isCorrect,
                                                                 h.responseTime, now)])
                /\ UNCHANGED <<signProgress, now, callCount, correctCount, probe,
                               state, currentQuestion, quizSessions, categoryStats,
                               lastCall>>
           ELSE Rejected(i, "checkAnswer")

\* updateWithSM2 after `await put`, checkAnswer's return and the rest of
\* handleAnswer: the feedback and the next button
updateWithSM2Written(i, ok) ==
    /\ Answerable(i)
    /\ flow.inFlight[i].handler = "handleAnswer"
    /\ flow.inFlight[i].at = "put"
    /\ LET h == flow.inFlight[i]
       IN  IF ok
           THEN /\ signProgress' = put(signProgress, h.record)
                /\ callCount' = [callCount EXCEPT ![h.sign.id] = @ + 1]
                /\ correctCount' = [correctCount EXCEPT ![h.sign.id] =
                                        IF h.isCorrect THEN @ + 1 ELSE @]
                /\ lastCall' = [op |-> "checkAnswer",
                                value |-> [isCorrect |-> h.isCorrect,
                                           responseTime |-> h.responseTime,
                                           streak |-> state.streak]]
                /\ flow' = [flow EXCEPT !.inFlight = RemoveAt(@, i), !.nextBtn = TRUE]
                /\ UNCHANGED <<now, probe, state, currentQuestion, quizSessions,
                               categoryStats>>
           ELSE Rejected(i, "checkAnswer")

\* one pass of finishQuiz's loop as far as updateCategoryStats's `await get`
StatsRequest(cats, categoryTotal) ==
    LET cat == cats[1]
        IsCat(sign) == sign.category = cat
        wrong == Len(SelectSeq(state.wrongAnswers, IsCat))
    IN  [handler |-> "handleNextQuestion",
         at |-> "get",
         cats |-> Tail(cats),
         categoryTotal |-> categoryTotal,
         categoryKey |-> cat,
         correct |-> categoryTotal[cat] - wrong,
         total |-> categoryTotal[cat]]

\* finishQuiz's return and showResults
Finished(i) ==
    /\ state' = [state EXCEPT !.currentScreen = "results"]
    /\ flow' = [flow EXCEPT !.inFlight = RemoveAt(@, i)]
    /\ lastCall' = [op |-> "finishQuiz", value |-> "resolved"]

\* finishQuiz after `await saveQuizSession`: the session is stored, the
\* categories of the session are counted and the loop is entered
sessionSaved(i, ok) ==
    /\ Answerable(i)
    /\ flow.inFlight[i].handler = "handleNextQuestion"
    /\ flow.inFlight[i].at = "saveQuizSession"
    /\ LET h == flow.inFlight[i]
           cats == CategoriesOf(state.quizSigns)
           categoryTotal ==
               [cat \in {cats[k] : k \in 1..Len(cats)} |->
                   LET IsCat(sign) == sign.category = cat
                   IN  Len(SelectSeq(state.quizSigns, IsCat))]
       IN  IF ok
           THEN /\ quizSessions' = saveQuizSession(quizSessions, h.session, h.today)
                /\ IF cats = <<>>
                   THEN Finished(i)
                   ELSE /\ flow' = Requeued(i, StatsRequest(cats, categoryTotal))
                        /\ UNCHANGED <<state, lastCall>>
                /\ UNCHANGED <<signProgress, now, callCount, correctCount, probe,
                               currentQuestion, categoryStats>>
           ELSE Rejected(i, "finishQuiz")

\* updateCategoryStats after `await get`: the sums are computed and put
statsRead(i, ok) ==
    /\ Answerable(i)
    /\ flow.inFlight[i].handler = "handleNextQuestion"
    /\ flow.inFlight[i].at = "get"
    /\ LET h == flow.inFlight[i]
       IN  IF ok
           THEN /\ flow' = Requeued(i, [handler |-> "handleNextQuestion",
                                        at |-> "put",
                                        cats |-> h.cats,
                                        categoryTotal |-> h.categoryTotal,
                                        record |-> updateCategoryStats(categoryStats,
                                                       h.categoryKey, h.correct,
                                                       h.total, now)])
                /\ UNCHANGED <<signProgress, now, callCount, correctCount, probe,
                               state, currentQuestion, quizSessions, categoryStats,
                               lastCall>>
           ELSE Rejected(i, "finishQuiz")

\* updateCategoryStats after `await put`: the next pass of the loop, or the
\* end of finishQuiz
statsWritten(i, ok) ==
    /\ Answerable(i)
    /\ flow.inFlight[i].handler = "handleNextQuestion"
    /\ flow.inFlight[i].at = "put"
    /\ LET h == flow.inFlight[i]
       IN  IF ok
           THEN /\ categoryStats' =
                       [cat \in DOMAIN categoryStats \cup {h.record.categoryKey} |->
                           IF cat = h.record.categoryKey THEN h.record
                           ELSE categoryStats[cat]]
                /\ IF h.cats = <<>>
                   THEN Finished(i)
                   ELSE /\ flow' = Requeued(i, StatsRequest(h.cats, h.categoryTotal))
                        /\ UNCHANGED <<state, lastCall>>
                /\ UNCHANGED <<signProgress, now, callCount, correctCount, probe,
                               currentQuestion, quizSessions>>
           ELSE Rejected(i, "finishQuiz")

(***************************************************************************)
(* The page on a fresh installation: sessions of one question from the     *)
(* category "priority", or of two questions of medium difficulty from both *)
(* categories, in the adaptive mode: up to MaxStarts sessions, MaxInFlight  *)
(* suspended handlers and MaxRejections rejected requests.                 *)
(***************************************************************************)
FlowSettings ==
    {[InitialState EXCEPT !.selectedCategories = <<"priority">>,
                          !.quizMode = "adaptive",
                          !.questionsPerQuiz = 1],
     [InitialState EXCEPT !.selectedCategories = <<"priority", "warning">>,
                          !.quizMode = "adaptive",
                          !.difficulty = "medium",
                          !.questionsPerQuiz = 2]}

FlowInit ==
    /\ signProgress = <<>>
    /\ now = 0
    /\ callCount = [s \in CatalogIds |-> 0]
    /\ correctCount = [s \in CatalogIds |-> 0]
    /\ probe = NoProbe
    /\ state \in FlowSettings
    /\ currentQuestion = Null
    /\ quizSessions = <<>>
    /\ categoryStats = <<>>
    /\ lastCall = NoCall
    /\ flow = NoFlow

FlowNext ==
    \/ /\ flow.started < MaxStarts
       /\ \E random \in RandomStreams(Len(ShuffleInput(state))) : handleStartQuiz(random)
    \/ \E isCorrect \in BOOLEAN, responseTime \in QuizResponseTimes :
           handleAnswer(isCorrect, responseTime)
    \/ handleNextQuestion
    \/ \E i \in 1..MaxInFlight, ok \in BOOLEAN : updateWithSM2Read(i, ok)
    \/ \E i \in 1..MaxInFlight, ok \in BOOLEAN : updateWithSM2Written(i, ok)
    \/ \E i \in 1..MaxInFlight, ok \in BOOLEAN : sessionSaved(i, ok)
    \/ \E i \in 1..MaxInFlight, ok \in BOOLEAN : statsRead(i, ok)
    \/ \E i \in 1..MaxInFlight, ok \in BOOLEAN : statsWritten(i, ok)

FlowSpec == FlowInit /\ [][FlowNext]_vars

(***************************************************************************)
(* The reads of the dashboard (recommendations.js, progress.js and the     *)
(* dashboard component).  Each function awaits its reads of the store and  *)
(* computes its result from what they return; here the catalog signData    *)
(* is an array of Object.entries pairs [key, signs], allProgress is        *)
(* getAll(SIGN_PROGRESS), sessions is getAll(QUIZ_SESSIONS), today is the  *)
(* clock, and a session's date is its day.                                 *)
(***************************************************************************)
RECURSIVE SumOf(_)
SumOf(numbers) ==
    IF numbers = <<>> THEN 0 ELSE Head(numbers) + SumOf(Tail(numbers))

\* the sum of numbers[lo..hi]; exact addition is associative, the halves are
\* added up on their own
RECURSIVE RSumRange(_, _, _)
RSumRange(numbers, lo, hi) ==
    IF lo > hi THEN RInt(0)
    ELSE IF lo = hi THEN numbers[lo]
    ELSE LET mid == (lo + hi) \div 2
             left == RSumRange(numbers, lo, mid)
             right == RSumRange(numbers, mid + 1, hi)
         IN  RAdd(left, right)

RSumOf(numbers) == RSumRange(numbers, 1, Len(numbers))

\* the first occurrences of the elements of `keys`, in order
RECURSIVE Distinct(_)
Distinct(keys) ==
    IF keys = <<>> THEN <<>>
    ELSE LET front == Distinct(Slice(keys, Len(keys) - 1))
             key == keys[Len(keys)]
         IN  IF \E i \in 1..Len(front) : front[i] = key
             THEN front ELSE Append(front, key)

\* index.getAll(IDBKeyRange.upperBound(now), limit) on `allProgress`
getDueForReviewFrom(allProgress, today, limit) ==
    LET Due(p) == p.nextReviewDate <= today
        due == SelectSeq(allProgress, Due)
        date == [i \in 1..Len(due) |-> RInt(due[i].nextReviewDate)]
    IN  Slice(SortedBy(due, date), limit)

\* totalSigns and studiedSigns of getPersonalizedRecommendations and
\* getDashboardSummary
TotalSigns(signDataArg) ==
    SumOf([c \in 1..Len(signDataArg) |-> Len(signDataArg[c].signs)])

StudiedSigns(signDataArg, allProgress) ==
    LET Studied(sign) == sign.id \in SignIdsOf(allProgress)
    IN  SumOf([c \in 1..Len(signDataArg) |->
                  Len(SelectSeq(signDataArg[c].signs, Studied))])

\* the entries of categoryAccuracy that pass the filter, weakest first
WeakCategories(allProgress) ==
    LET keys == Distinct([i \in 1..Len(allProgress) |-> allProgress[i].category])
        Of(key) == LET In(p) == p.category = key IN SelectSeq(allProgress, In)
        Total(key) == SumOf([i \in 1..Len(Of(key)) |-> Of(key)[i].totalAttempts])
        Correct(key) == SumOf([i \in 1..Len(Of(key)) |-> Of(key)[i].correctAttempts])
        entries == [k \in 1..Len(keys) |->
                       [key |-> keys[k],
                        accuracy |-> IF Total(keys[k]) > 0
                                     THEN Rat(Correct(keys[k]), Total(keys[k]))
                                     ELSE RInt(0),
                        attempts |-> Total(keys[k])]]
        Weak(c) == c.attempts >= 5 /\ RLt(c.accuracy, Rat(7, 10))
        weak == SelectSeq(entries, Weak)
    IN  SortedBy(weak, [k \in 1..Len(weak) |-> weak[k].accuracy])

\* allProgress.reduce((sum, p) => sum + p.correctAttempts / p.totalAttempts, 0)
\* / allProgress.length, or 0
AverageAccuracy(allProgress) ==
    IF Len(allProgress) > 0
    THEN RDiv(RSumOf([i \in 1..Len(allProgress) |->
                         Rat(allProgress[i].correctAttempts,
                             allProgress[i].totalAttempts)]),
              RInt(Len(allProgress)))
    ELSE RInt(0)

\* priorityOrder[priority]
PriorityOrder(priority) ==
    CASE priority = "high" -> 0
      [] priority = "medium" -> 1
      [] priority = "low" -> 2

\* mutant: the recommendations sorted with the lowest priority first
SortedRecommendations_Reversed(recommendations) ==
    SortedBy(recommendations,
             [i \in 1..Len(recommendations) |->
                 RInt(0 - PriorityOrder(recommendations[i].priority))])

\* recommendations.sort((a, b) => priorityOrder[a.priority] - priorityOrder[b.priority])
SortedRecommendations(recommendations) ==
    SortedBy(recommendations,
             [i \in 1..Len(recommendations) |->
                 RInt(PriorityOrder(recommendations[i].priority))])

\* mutant: the suggestion of new signs made whatever is due
NewSignsRule_AnyDue(newSignsCount, dueCount) == newSignsCount > 0

\* newSignsCount > 0 && dueForReview.length < 10
NewSignsRule(newSignsCount, dueCount) == newSignsCount > 0 /\ dueCount < 10

\* the body of getPersonalizedRecommendations after its reads
Recommendations(signDataArg, allProgress, dueForReview, sessions, today) ==
    LET studiedSigns == StudiedSigns(signDataArg, allProgress)
        newSignsCount == TotalSigns(signDataArg) - studiedSigns
        weakCategories == WeakCategories(allProgress)
        practicedToday == \E i \in 1..Len(sessions) : sessions[i].date.day = today
        review == IF Len(dueForReview) > 0
                  THEN <<[type |-> "review", priority |-> "high", action |-> "spaced"]>>
                  ELSE <<>>
        weak == IF Len(weakCategories) > 0
                THEN <<[type |-> "weak_category", priority |-> "medium",
                        action |-> "category",
                        categoryKey |-> weakCategories[1].key]>>
                ELSE <<>>
        new == IF NewSignsRule(newSignsCount, Len(dueForReview))
               THEN <<[type |-> "new_signs",
                       priority |-> IF newSignsCount > 50 THEN "medium" ELSE "low",
                       action |-> "standard"]>>
               ELSE <<>>
        streak == IF ~practicedToday
                  THEN <<[type |-> "streak", priority |-> "low", action |-> "standard"]>>
                  ELSE <<>>
        challenge == IF RLt(Rat(8, 10), AverageAccuracy(allProgress)) /\ studiedSigns > 20
                     THEN <<[type |-> "challenge", priority |-> "low", action |-> "hard"]>>
                     ELSE <<>>
    IN  SortedRecommendations(review \o weak \o new \o streak \o challenge)

\* progressMap.get(sign.id)
ProgressMapGet(allProgress, signId) ==
    IF \E i \in 1..Len(allProgress) : allProgress[i].signId = signId
    THEN allProgress[CHOOSE i \in 1..Len(allProgress) :
             /\ allProgress[i].signId = signId
             /\ \A j \in (i + 1)..Len(allProgress) : allProgress[j].signId # signId]
    ELSE Undefined

\* the records of the signs of one catalog entry that have one
StudiedOf(entry, allProgress) ==
    LET Studied(sign) == sign.id \in SignIdsOf(allProgress)
        signs == SelectSeq(entry.signs, Studied)
    IN  [i \in 1..Len(signs) |-> ProgressMapGet(allProgress, signs[i].id)]

\* the streak of getDashboardSummary: the days of sessions that run back
\* from today or yesterday without a gap
RECURSIVE DaysBack(_, _)
DaysBack(days, start) ==
    IF start \in days THEN 1 + DaysBack(days, start - 1) ELSE 0

SessionStreak(sessions, today) ==
    LET days == {sessions[i].date.day : i \in 1..Len(sessions)}
    IN  IF today \in days THEN DaysBack(days, today)
        ELSE IF (today - 1) \in days THEN DaysBack(days, today - 1)
        ELSE 0

\* sessions.reduce(...)?.percentage || 0
BestScore(sessions) ==
    IF sessions = <<>> THEN 0
    ELSE LET best == CHOOSE i \in 1..Len(sessions) :
                 \A j \in 1..Len(sessions) : sessions[j].percentage <= sessions[i].percentage
         IN  sessions[best].percentage

\* the body of getDashboardSummary after its reads
Summary(signDataArg, allProgress, sessions, today) ==
    LET studied == [c \in 1..Len(signDataArg) |-> StudiedOf(signDataArg[c], allProgress)]
        Mastered(p) == getRetentionScore(p) >= 80
        totalAttempts ==
            SumOf([c \in 1..Len(studied) |->
                      SumOf([i \in 1..Len(studied[c]) |-> studied[c][i].totalAttempts])])
        correctAttempts ==
            SumOf([c \in 1..Len(studied) |->
                      SumOf([i \in 1..Len(studied[c]) |-> studied[c][i].correctAttempts])])
    IN  [totalSigns |-> TotalSigns(signDataArg),
         studiedSigns |-> StudiedSigns(signDataArg, allProgress),
         masteredSigns |->
             SumOf([c \in 1..Len(studied) |-> Len(SelectSeq(studied[c], Mastered))]),
         accuracy |-> IF totalAttempts > 0
                      THEN RRound(RMul(Rat(correctAttempts, totalAttempts), RInt(100)))
                      ELSE 0,
         streak |-> SessionStreak(sessions, today),
         totalQuizzes |-> Len(sessions),
         bestScore |-> BestScore(sessions)]

\* one entry of getLearningStats' categoryStats with the fields
\* getCategoryProgress adds
CategoryProgressOf(entry, allProgress) ==
    LET Attempted(p) == p.totalAttempts > 0
        Mastered(p) == getRetentionScore(p) >= 80
        studied == SelectSeq(StudiedOf(entry, allProgress), Attempted)
        total == Len(entry.signs)
        totalAttempts == SumOf([i \in 1..Len(studied) |-> studied[i].totalAttempts])
        correctAttempts == SumOf([i \in 1..Len(studied) |-> studied[i].correctAttempts])
        mastered == Len(SelectSeq(studied, Mastered))
    IN  [key |-> entry.key,
         total |-> total,
         studied |-> Len(studied),
         mastered |-> mastered,
         accuracy |-> IF totalAttempts > 0 THEN Rat(correctAttempts, totalAttempts)
                      ELSE RInt(0),
         totalAttempts |-> totalAttempts,
         correctAttempts |-> correctAttempts,
         progress |-> IF total > 0 THEN Rat(Len(studied), total) ELSE RInt(0),
         masteryProgress |-> IF total > 0 THEN Rat(mastered, total) ELSE RInt(0)]

\* the body of getCategoryProgress after the read of getLearningStats
CategoryProgress(signDataArg, allProgress) ==
    LET categories == [c \in 1..Len(signDataArg) |->
                          CategoryProgressOf(signDataArg[c], allProgress)]
    IN  SortedBy(categories, [c \in 1..Len(categories) |-> categories[c].progress])

\* getWeakestSigns on `allProgress`
getWeakestSignsFrom(allProgress, limit) ==
    LET Attempted(p) == p.totalAttempts >= 2
        filtered == SelectSeq(allProgress, Attempted)
        accuracy == [i \in 1..Len(filtered) |->
                        Rat(filtered[i].correctAttempts, filtered[i].totalAttempts)]
    IN  Slice(SortedBy(filtered, accuracy), limit)

\* the signs of one catalog entry that getWeakSignsWithDetails pushes
WeakSignsOf(entry, weakest) ==
    LET Weak(sign) == sign.id \in SignIdsOf(weakest)
        signs == SelectSeq(entry.signs, Weak)
    IN  [i \in 1..Len(signs) |->
            LET progress == ProgressMapGet(weakest, signs[i].id)
            IN  [id |-> signs[i].id,
                 category |-> entry.key,
                 accuracy |-> Rat(progress.correctAttempts, progress.totalAttempts),
                 totalAttempts |-> progress.totalAttempts,
                 mastery |-> getMasteryLevel(progress)]]

RECURSIVE WeakSignsFrom(_, _)
WeakSignsFrom(signDataArg, weakest) ==
    IF signDataArg = <<>> THEN <<>>
    ELSE WeakSignsOf(Head(signDataArg), weakest)
         \o WeakSignsFrom(Tail(signDataArg), weakest)

\* the body of getWeakSignsWithDetails after the read of getWeakestSigns
WeakSigns(signDataArg, allProgress, limit) ==
    LET signs == WeakSignsFrom(signDataArg, getWeakestSignsFrom(allProgress, limit))
    IN  SortedBy(signs, [i \in 1..Len(signs) |-> signs[i].accuracy])

\* a settled promise
Resolved(value) == [settled |-> "resolved", value |-> value]
RejectedPromise == [settled |-> "rejected"]

\* what model.predict and prediction.data() do in a call: throw, or give a
\* probability
Thrown == [thrown |-> TRUE]

\* the model of a page whose initPredictionModel has succeeded
LoadedModel == [model |-> "sequential"]

\* mutant: predictFailure without its try and catch
predictFailure_Uncaught(isModelReady, model, outcome) ==
    IF ~isModelReady \/ model = Null THEN Resolved(Rat(1, 2))
    ELSE IF outcome = Thrown THEN RejectedPromise
    ELSE Resolved(outcome)

predictFailure(isModelReady, model, outcome) ==
    IF ~isModelReady \/ model = Null THEN Resolved(Rat(1, 2))
    ELSE IF outcome = Thrown THEN Resolved(Rat(1, 2))
    ELSE Resolved(outcome)

\* the predictions of getMostLikelyToFail in a page whose model is ready,
\* after its reads: one for every record of a sign of the catalog, the most
\* likely failures first
MostLikelyToFail(signDataArg, allProgress, outcome, limit) ==
    LET CatalogIdsOf(c) == {signDataArg[c].signs[i].id : i \in 1..Len(signDataArg[c].signs)}
        Known(p) == \E c \in 1..Len(signDataArg) : p.signId \in CatalogIdsOf(c)
        known == SelectSeq(allProgress, Known)
        predictions ==
            [i \in 1..Len(known) |->
                [signId |-> known[i].signId,
                 category |-> signDataArg[CHOOSE c \in 1..Len(signDataArg) :
                                  /\ known[i].signId \in CatalogIdsOf(c)
                                  /\ \A b \in 1..(c - 1) :
                                        known[i].signId \notin CatalogIdsOf(b)].key,
                 failProbability |-> predictFailure(TRUE, LoadedModel, outcome).value,
                 accuracy |-> Rat(known[i].correctAttempts, known[i].totalAttempts)]]
        key == [i \in 1..Len(predictions) |->
                   RSub(RInt(0), predictions[i].failProbability)]
    IN  Slice(SortedBy(predictions, key), limit)

\* the reads of a call: `installation` is what the stores hold and the
\* object stores whose requests fail
ReadRejects(installation, stores) == installation.rejects \cap stores # {}

getPersonalizedRecommendations(signDataArg, installation, today) ==
    IF ReadRejects(installation, {"signProgress", "quizSessions"}) THEN RejectedPromise
    ELSE Resolved(Recommendations(signDataArg, installation.allProgress,
                                  getDueForReviewFrom(installation.allProgress, today, 20),
                                  installation.sessions, today))

getDashboardSummary(signDataArg, installation, today) ==
    IF ReadRejects(installation, {"signProgress", "quizSessions"}) THEN RejectedPromise
    ELSE Resolved(Summary(signDataArg, installation.allProgress,
                          installation.sessions, today))

getCategoryProgress(signDataArg, installation) ==
    IF ReadRejects(installation, {"signProgress"}) THEN RejectedPromise
    ELSE Resolved(CategoryProgress(signDataArg, installation.allProgress))

getWeakSignsWithDetails(signDataArg, installation, limit) ==
    IF ReadRejects(installation, {"signProgress"}) THEN RejectedPromise
    ELSE Resolved(WeakSigns(signDataArg, installation.allProgress, limit))

\* what renderDashboard leaves in the container
renderDashboard(signDataArg, installation, today) ==
    LET summary == getDashboardSummary(signDataArg, installation, today)
        recommendations == getPersonalizedRecommendations(signDataArg, installation, today)
        categoryProgress == getCategoryProgress(signDataArg, installation)
        weakSigns == getWeakSignsWithDetails(signDataArg, installation, 6)
        all == <<summary, recommendations, categoryProgress, weakSigns>>
    IN  IF \E i \in 1..Len(all) : all[i].settled = "rejected"
        THEN [panel |-> "error-message"]
        ELSE [panel |-> "dashboard",
              summary |-> summary.value,
              recommendations |-> recommendations.value,
              categoryProgress |-> categoryProgress.value,
              weakSigns |-> weakSigns.value,
              mlPredictions |->
                  IF installation.isModelReady
                     /\ ~ReadRejects(installation, {"signProgress", "categoryStats"})
                  THEN MostLikelyToFail(signDataArg, installation.allProgress,
                                        installation.outcome, 5)
                  ELSE <<>>]

\* the markup createMiniStats returns: the three figures, or ''
createMiniStats(signDataArg, installation, today) ==
    LET summary == getDashboardSummary(signDataArg, installation, today)
    IN  IF summary.settled = "rejected" THEN Resolved([markup |-> ""])
        ELSE Resolved([markup |-> "mini-stats",
                       studiedSigns |-> summary.value.studiedSigns,
                       totalSigns |-> summary.value.totalSigns,
                       accuracy |-> summary.value.accuracy,
                       streak |-> summary.value.streak])

(***************************************************************************)
(* The dashboard on its own: Init draws an installation and one call, the  *)
(* action of the function applies it.  The catalog is two categories of    *)
(* DashCatalogSize signs; the records of a category are those of signs     *)
(* that were all answered the same way on day 0, and today is the last day.*)
(***************************************************************************)
DashCatalogSize == 36

DashSignId(catKey, i) == <<catKey, i>>

DashCatalog(size) ==
    [c \in 1..2 |->
        LET catKey == IF c = 1 THEN "warning" ELSE "priority"
        IN  [key |-> catKey,
             signs |-> [i \in 1..size |-> [id |-> DashSignId(catKey, i)]]]]

\* the answers a sign was given, the oldest first
DashAnswers ==
    {<<FALSE>>,
     <<TRUE, TRUE>>,
     <<FALSE, TRUE, TRUE, TRUE, TRUE>>,
     <<TRUE, TRUE, TRUE, TRUE, FALSE>>,
     <<FALSE, FALSE, TRUE, TRUE, TRUE>>,
     <<TRUE, TRUE, TRUE, FALSE, FALSE>>,
     <<FALSE, FALSE, FALSE, TRUE, TRUE, TRUE, TRUE, TRUE, TRUE, TRUE>>}

RECURSIVE DashProgress(_, _, _)
DashProgress(signId, catKey, answers) ==
    IF answers = <<>> THEN DefaultProgress(signId, catKey)
    ELSE ProgressAfter(DashProgress(signId, catKey, Slice(answers, Len(answers) - 1)),
                       answers[Len(answers)], PastResponseTime, 0)

\* the records of the first `count` signs of a category
DashRecords(catKey, count, answers) ==
    LET record == DashProgress(DashSignId(catKey, 0), catKey, answers)
    IN  [i \in 1..count |-> [record EXCEPT !.signId = DashSignId(catKey, i)]]

DashSession(day, order, percentage) ==
    [date |-> [day |-> day, order |-> order], percentage |-> percentage]

DashSessions ==
    {<<>>,
     <<DashSession(0, 0, 50)>>,
     <<DashSession(MaxDay, 0, 100)>>,
     <<DashSession(0, 0, 50), DashSession(MaxDay, 0, 100)>>}

\* what a call finds: the number of studied signs of either category and
\* their answers, the sessions, the object stores whose requests fail, the
\* scorer
Found(warningCount, warningAnswers, priorityCount, priorityAnswers,
      sessions, rejects, isModelReady, outcome) ==
    [warningCount |-> warningCount, warningAnswers |-> warningAnswers,
     priorityCount |-> priorityCount, priorityAnswers |-> priorityAnswers,
     sessions |-> sessions,
     rejects |-> rejects,
     isModelReady |-> isModelReady,
     outcome |-> outcome]

\* getAll returns the records in key order: 'priority' before 'warning'
Installation(found) ==
    [allProgress |-> DashRecords("priority", found.priorityCount, found.priorityAnswers)
                     \o DashRecords("warning", found.warningCount, found.warningAnswers),
     sessions |-> found.sessions,
     rejects |-> found.rejects,
     isModelReady |-> found.isModelReady,
     outcome |-> found.outcome]

\* what the calls of the recommendations find: all reads succeed
StudiedCounts(size) == {n \in {0, 1, 9, 10, 20, 21} : n <= size}

DashFound(size) ==
    {Found(wn, wa, pn, pa, sessions, {}, FALSE, Thrown) :
        wn \in {n \in StudiedCounts(size) : n <= 1 \/ n >= 20}, wa \in DashAnswers,
        pn \in {n \in StudiedCounts(size) : n <= 10}, pa \in DashAnswers,
        sessions \in DashSessions}

\* what the other calls find: reads that fail, a scorer
FailingFound ==
    {Found(wn, <<FALSE, TRUE, TRUE, TRUE, TRUE>>, 1, <<FALSE>>,
           sessions, rejects, ready, outcome) :
        wn \in {0, 10}, sessions \in DashSessions,
        rejects \in {{}, {"signProgress"}, {"quizSessions"}, {"categoryStats"}},
        ready \in BOOLEAN, outcome \in {Thrown, Rat(9, 10)}}

DashFunctions ==
    {"getPersonalizedRecommendations", "getDashboardSummary", "getCategoryProgress",
     "getWeakSignsWithDetails", "renderDashboard", "createMiniStats"}

DashCalls ==
    {ProbeCall("getPersonalizedRecommendations", [size |-> size, found |-> found]) :
        size \in {1}, found \in DashFound(1)}
    \cup
    {ProbeCall("getPersonalizedRecommendations", [size |-> size, found |-> found]) :
        size \in {DashCatalogSize}, found \in DashFound(DashCatalogSize)}
    \cup
    {ProbeCall(fn, [size |-> DashCatalogSize, found |-> found]) :
        fn \in DashFunctions, found \in FailingFound}

\* the arguments of the call in `probe`
ArgSignData == DashCatalog(probe.args.size)
ArgInstallation == Installation(probe.args.found)

CallGetPersonalizedRecommendations ==
    /\ Pending("getPersonalizedRecommendations")
    /\ Return(getPersonalizedRecommendations(ArgSignData,
                                             ArgInstallation, now))

CallGetDashboardSummary ==
    /\ Pending("getDashboardSummary")
    /\ Return(getDashboardSummary(ArgSignData, ArgInstallation, now))

CallGetCategoryProgress ==
    /\ Pending("getCategoryProgress")
    /\ Return(getCategoryProgress(ArgSignData, ArgInstallation))

\* the call of renderDashboard
CallGetWeakSignsWithDetails ==
    /\ Pending("getWeakSignsWithDetails")
    /\ Return(getWeakSignsWithDetails(ArgSignData, ArgInstallation, 6))

CallRenderDashboard ==
    /\ Pending("renderDashboard")
    /\ Return(renderDashboard(ArgSignData, ArgInstallation, now))

CallCreateMiniStats ==
    /\ Pending("createMiniStats")
    /\ Return(createMiniStats(ArgSignData, ArgInstallation, now))

DashInit ==
    /\ signProgress = <<>>
    /\ now = MaxDay
    /\ callCount = [s \in SignIds |-> 0]
    /\ correctCount = [s \in SignIds |-> 0]
    /\ probe \in DashCalls
    /\ QuizIdle

DashNext ==
    \/ CallGetPersonalizedRecommendations
    \/ CallGetDashboardSummary
    \/ CallGetCategoryProgress
    \/ CallGetWeakSignsWithDetails
    \/ CallRenderDashboard
    \/ CallCreateMiniStats

DashSpec == DashInit /\ [][DashNext]_vars

(***************************************************************************)
(* The page with its scorer.  init arms a timer that calls                 *)
(* initPredictionModel; getMostLikelyToFail calls it again while the model *)
(* is not ready.  The call loads the library and the saved weights and     *)
(* may fail before or after it has created the model; it catches its       *)
(* errors.  predictFailure is called once, at any moment.                  *)
(***************************************************************************)
ModelOutcomes == {"ready", "no model", "no weights"}

initPredictionModel(outcome) ==
    /\ ~(flow.isModelReady /\ flow.model # Null)
    /\ flow' = CASE outcome = "ready" ->
                      [flow EXCEPT !.model = LoadedModel, !.isModelReady = TRUE]
                 [] outcome = "no weights" -> [flow EXCEPT !.model = LoadedModel]
                 [] outcome = "no model" -> flow
    /\ UNCHANGED <<signProgress, now, callCount, correctCount, probe, quizVars>>

PredictionOutcomes == {Thrown, Rat(9, 10)}

CallPredictFailure(outcome) ==
    /\ probe = NoProbe
    /\ probe' = [fn |-> "predictFailure",
                 args |-> [isModelReady |-> flow.isModelReady,
                           model |-> flow.model,
                           outcome |-> outcome],
                 done |-> TRUE,
                 result |-> predictFailure(flow.isModelReady, flow.model, outcome)]
    /\ UNCHANGED <<signProgress, now, callCount, correctCount, quizVars, flow>>

ScorerInit ==
    /\ FlowInit
    /\ state.questionsPerQuiz = 1

ScorerNext ==
    \/ FlowNext
    \/ \E outcome \in ModelOutcomes : initPredictionModel(outcome)
    \/ \E outcome \in PredictionOutcomes : CallPredictFailure(outcome)

ScorerSpec == ScorerInit /\ [][ScorerNext]_vars

(***************************************************************************)
(* The page with the clicks the class 'disabled' does not stop.  The       *)
(* options are button elements; handleAnswer adds the class to them and    *)
(* neither sets their disabled attribute nor removes their listeners, so   *)
(* the keyboard activation of the option that has the focus runs           *)
(* handleAnswer once more, while the first call waits for the store or     *)
(* after it has ended, until renderQuestion replaces the options.          *)
(***************************************************************************)
MaxRepeats == 1

\* the answers scored beyond one for each question shown
RepeatedAnswers(st) ==
    st.correctAnswers + Len(st.wrongAnswers) - (st.currentQuestion + 1)

handleAnswerAgain(isCorrect, responseTime) ==
    /\ state.currentScreen = "quiz"
    /\ flow.optionsDisabled
    /\ currentQuestion # Null
    /\ callCount[currentQuestion.sign.id] < MaxAttempts
    /\ Len(flow.inFlight) < MaxInFlight
    /\ RepeatedAnswers(state) < MaxRepeats
    /\ state' = Answered(state, currentQuestion.sign, isCorrect)
    /\ flow' = [flow EXCEPT !.inFlight = Append(@, [handler |-> "handleAnswer",
                                                    at |-> "get",
                                                    sign |-> currentQuestion.sign,
                                                    isCorrect |-> isCorrect,
                                                    responseTime |-> responseTime])]
    /\ UNCHANGED <<signProgress, now, callCount, correctCount, probe,
                   currentQuestion, quizSessions, categoryStats, lastCall>>

KeyNext ==
    \/ FlowNext
    \/ \E isCorrect \in BOOLEAN, responseTime \in QuizResponseTimes :
           handleAnswerAgain(isCorrect, responseTime)

KeySpec == FlowInit /\ [][KeyNext]_vars

(***************************************************************************)
(* Claims about the page: finishing, rejections, the scorer.               *)
(***************************************************************************)
\* C22: every started session persists one QuizSession at most and adds
\* its signs to the category statistics once at most, whatever the user
\* clicks while finishQuiz waits for the store.
C22_SessionWrittenOnce ==
    /\ Len(quizSessions) <= flow.started
    /\ \A cat \in CategoryKeys :
          StatOf(categoryStats, cat).totalAttempts
             <= SumOver(callCount, Ids(CategorySigns(cat)))

\* the step in which a request of updateWithSM2 is rejected
AnswerRejectedStep ==
    /\ flow'.rejections = flow.rejections + 1
    /\ lastCall'.op = "rejected"
    /\ lastCall'.of = "checkAnswer"

\* checkAnswer rejects with the answer counted in the session and nothing
\* written to the store
AnswerRejectedEffect ==
    LET i == CHOOSE k \in 1..Len(flow.inFlight) :
                 flow.inFlight[k].handler = "handleAnswer"
        h == flow.inFlight[i]
    IN  /\ state' = state
        /\ state.correctAnswers + Len(state.wrongAnswers) = state.currentQuestion + 1
        /\ IF h.isCorrect
           THEN /\ state.correctAnswers >= 1
                /\ state.streak >= 1
                /\ state.bestStreak >= state.streak
           ELSE /\ state.streak = 0
                /\ state.wrongAnswers[Len(state.wrongAnswers)] = h.sign
        /\ signProgress' = signProgress
        /\ callCount' = callCount
        /\ flow'.inFlight = RemoveAt(flow.inFlight, i)

\* C25: when a request of updateWithSM2 is rejected during checkAnswer,
\* checkAnswer rejects, and correctAnswers, streak, bestStreak and
\* wrongAnswers keep what the answer did to them; no record is written.
C25_RejectionNotRolledBack ==
    [][AnswerRejectedStep => AnswerRejectedEffect]_vars

\* the put of the first answer, a correct one, was rejected
C25_Witness ==
    /\ lastCall = [op |-> "rejected", of |-> "checkAnswer", at |-> "put"]
    /\ state.correctAnswers = 1
    /\ state.streak = 1
    /\ state.bestStreak = 1
    /\ signProgress = <<>>

\* the store has rejected a write and the handler that awaited it has ended
WriteRejected(op) ==
    /\ lastCall.op = "rejected"
    /\ lastCall.of = op
    /\ lastCall.at \in {"put", "saveQuizSession"}

\* C26: a rejected write does not stall the session: after a rejected write
\* of an answer the next button is displayed as after a stored one, and
\* after a rejected write of finishQuiz the results screen is shown.
C26_FlowNeverStalls ==
    /\ (WriteRejected("checkAnswer") /\ state.currentScreen = "quiz") => flow.nextBtn
    /\ (WriteRejected("finishQuiz") /\ flow.inFlight = <<>>)
       => state.currentScreen = "results"

(***************************************************************************)
(* Claims about the dashboard: its reads and its recommendations.          *)
(***************************************************************************)
DashReads ==
    {"getPersonalizedRecommendations", "getDashboardSummary", "getCategoryProgress",
     "getWeakSignsWithDetails"}

\* a request of a store the call in `probe` reads has failed
ReadRejected ==
    \/ /\ probe.fn \in {"getPersonalizedRecommendations", "getDashboardSummary",
                        "renderDashboard", "createMiniStats"}
       /\ probe.args.found.rejects \cap {"signProgress", "quizSessions"} # {}
    \/ /\ probe.fn \in {"getCategoryProgress", "getWeakSignsWithDetails"}
       /\ "signProgress" \in probe.args.found.rejects

\* C27: when a read of the store rejects, getPersonalizedRecommendations,
\* getDashboardSummary, getCategoryProgress and getWeakSignsWithDetails
\* resolve (with empty or default results), and renderDashboard shows the
\* dashboard.
C27_ReadsDegrade ==
    /\ (probe.fn \in DashReads /\ probe.done /\ ReadRejected)
       => probe.result.settled = "resolved"
    /\ (Returned("renderDashboard") /\ ReadRejected)
       => probe.result.panel = "dashboard"

\* the claims' side of a call of getPersonalizedRecommendations, on
\* integers: the answers the signs of a category were given
CorrectOf(answers) == Cardinality({i \in 1..Len(answers) : answers[i]})
FoundAttempts(catKey) ==
    IF catKey = "warning"
    THEN probe.args.found.warningCount * Len(probe.args.found.warningAnswers)
    ELSE probe.args.found.priorityCount * Len(probe.args.found.priorityAnswers)
FoundCorrect(catKey) ==
    IF catKey = "warning"
    THEN probe.args.found.warningCount * CorrectOf(probe.args.found.warningAnswers)
    ELSE probe.args.found.priorityCount * CorrectOf(probe.args.found.priorityAnswers)

\* at least 5 attempts and accuracy below 0.7
IsWeakCategory(catKey) ==
    FoundAttempts(catKey) >= 5 /\ 10 * FoundCorrect(catKey) < 7 * FoundAttempts(catKey)

\* accuracy of a <= accuracy of b, both attempted
NotMoreAccurate(a, b) == FoundCorrect(a) * FoundAttempts(b) <= FoundCorrect(b) * FoundAttempts(a)

StudiedCount == probe.args.found.warningCount + probe.args.found.priorityCount
UnstudiedCount == 2 * probe.args.size - StudiedCount
DueCount ==
    Cardinality({i \in 1..Len(ArgInstallation.allProgress) :
                    ArgInstallation.allProgress[i].nextReviewDate <= now})

\* the mean of the signs' accuracies is above 0.8: the sum of the accuracies,
\* times 10, is above 8 times their number
MeanAbove80 ==
    LET wt == Len(probe.args.found.warningAnswers)
        pt == Len(probe.args.found.priorityAnswers)
    IN  10 * (probe.args.found.warningCount
                 * CorrectOf(probe.args.found.warningAnswers) * pt
              + probe.args.found.priorityCount
                 * CorrectOf(probe.args.found.priorityAnswers) * wt)
           > 8 * StudiedCount * wt * pt

PracticedToday ==
    \E i \in 1..Len(probe.args.found.sessions) :
        probe.args.found.sessions[i].date.day = now

RecommendationTypes == {"review", "weak_category", "new_signs", "streak", "challenge"}

\* the returned list has a suggestion of this type and this priority
Suggests(type, priority) ==
    \E i \in 1..Len(probe.result.value) :
        /\ probe.result.value[i].type = type
        /\ probe.result.value[i].priority = priority

SuggestsType(type) ==
    \E i \in 1..Len(probe.result.value) : probe.result.value[i].type = type

\* getPersonalizedRecommendations has returned a list
RecommendationsReturned ==
    /\ Returned("getPersonalizedRecommendations")
    /\ probe.result.settled = "resolved"

Tier(priority) ==
    IF priority = "high" THEN 1 ELSE IF priority = "medium" THEN 2 ELSE 3

RuleOf(type) ==
    CASE type = "review" -> 1
      [] type = "weak_category" -> 2
      [] type = "new_signs" -> 3
      [] type = "streak" -> 4
      [] type = "challenge" -> 5

InPriorityOrder(recs) ==
    \A i, j \in 1..Len(recs) :
        i < j =>
            /\ Tier(recs[i].priority) <= Tier(recs[j].priority)
            /\ Tier(recs[i].priority) = Tier(recs[j].priority)
               => RuleOf(recs[i].type) < RuleOf(recs[j].type)

\* the step in which getPersonalizedRecommendations returns
RecommendationsStep ==
    /\ probe.fn = "getPersonalizedRecommendations"
    /\ ~probe.done
    /\ probe'.done

\* C30: the list getPersonalizedRecommendations returns has high before
\* medium before low, suggestions of one priority in the order of their
\* rules; the call writes to no store.
C30_PriorityOrder ==
    /\ [](RecommendationsReturned => InPriorityOrder(probe.result.value))
    /\ [][RecommendationsStep
             => UNCHANGED <<signProgress, quizSessions, categoryStats>>]_vars

\* a list of all three priorities, with two suggestions of medium priority
C30_Witness ==
    /\ RecommendationsReturned
    /\ Suggests("review", "high")
    /\ Suggests("weak_category", "medium")
    /\ Suggests("new_signs", "medium")
    /\ Suggests("streak", "low")

(***************************************************************************)
(* Claims about the scorer.                                                *)
(***************************************************************************)
\* the step of a call of predictFailure
PredictStep == probe = NoProbe /\ probe'.fn = "predictFailure"

\* the call resolves, to 1/2 when the model is not ready or the prediction
\* throws
PredictEffect ==
    /\ probe'.result.settled = "resolved"
    /\ (\/ ~flow.isModelReady
        \/ flow.model = Null
        \/ probe'.args.outcome = Thrown)
       => (probe'.result.value.n = 1 /\ probe'.result.value.d = 2)

\* a step of the scorer: initPredictionModel or predictFailure
ScorerStep ==
    \/ probe' # probe
    \/ flow'.isModelReady # flow.isModelReady
    \/ flow'.model # flow.model

\* what the session and the stores hold
SessionUnchanged ==
    /\ UNCHANGED <<signProgress, callCount, correctCount, quizVars>>
    /\ flow'.inFlight = flow.inFlight
    /\ flow'.nextBtn = flow.nextBtn
    /\ flow'.optionsDisabled = flow.optionsDisabled

\* a suspended handler waits for a request of the store and for nothing of
\* the scorer, and in every state of the scorer the page takes the answer
\* to the question it shows
PageGoesOn ==
    /\ \A i \in 1..Len(flow.inFlight) :
          flow.inFlight[i].at \in {"get", "put", "saveQuizSession"}
    /\ (/\ state.currentScreen = "quiz"
        /\ ~flow.optionsDisabled
        /\ Len(flow.inFlight) < MaxInFlight
        /\ callCount[currentQuestion.sign.id] < MaxAttempts)
       => ENABLED (\E isCorrect \in BOOLEAN, responseTime \in QuizResponseTimes :
                      handleAnswer(isCorrect, responseTime))

\* C28: predictFailure never rejects: it resolves to 0.5 whenever the model
\* is not initialized or the prediction throws; the scorer's steps change
\* nothing of the session or the stores, no step changes both, the handlers
\* of the quiz wait for the store only, and an answer is taken in every
\* state of the scorer.
C28_ScorerNeverBlocks ==
    /\ [][PredictStep => PredictEffect]_vars
    /\ [][ScorerStep => SessionUnchanged]_vars
    /\ []PageGoesOn

\* predictFailure was called with a ready model whose prediction threw,
\* while handleAnswer was waiting for the store, and resolved to 0.5
C28_Witness ==
    /\ probe # NoProbe
    /\ probe.args.isModelReady
    /\ probe.args.outcome = Thrown
    /\ probe.result = Resolved(Rat(1, 2))
    /\ flow.inFlight # <<>>

(***************************************************************************)
(* Claims about concurrent answers.                                        *)
(***************************************************************************)
\* C31: no update of a learning record is lost: the stored record of a sign
\* counts as many attempts as calls of updateWithSM2 for the sign have
\* completed, however the calls interleave.
C31_NoLostUpdate ==
    \A id \in DOMAIN signProgress : signProgress[id].totalAttempts = callCount[id]

\* the calls of handleAnswer that wait for the store
AnswersInFlight ==
    {i \in 1..Len(flow.inFlight) : flow.inFlight[i].handler = "handleAnswer"}

\* C32: no second answer is accepted while an answer is being recorded, and
\* the answers scored in a session are never more than its questions:
\* correctAnswers + |wrongAnswers| <= |quizSigns|.
C32_NoDoubleSubmission ==
    /\ Cardinality(AnswersInFlight) <= 1
    /\ state.correctAnswers + Len(state.wrongAnswers) <= Len(state.quizSigns)

(***************************************************************************)
(* Claims about the difficulty filter and the size of the selection.       *)
(***************************************************************************)
\* the claims' side of the bands
InBand(sign, difficulty) ==
    LET d == IF sign.difficulty = 0 THEN 2 ELSE sign.difficulty
    IN  CASE difficulty = "easy" -> d = 1 \/ d = 2
          [] difficulty = "medium" -> d >= 2 /\ d <= 4
          [] difficulty = "hard" -> d >= 3 /\ d <= 5
          [] difficulty = "adaptive" -> TRUE

\* C33: filterByDifficulty keeps exactly the signs whose difficulty, 2 when
\* unset, is in {1,2} for easy, {2,3,4} for medium, {3,4,5} for hard, and
\* all signs for adaptive; in every mode the selection is made from the
\* filtered pool.
C33_DifficultyFilter ==
    Selected =>
        LET pool == CategoryCandidates(state.selectedCategories)
            Kept(sign) == InBand(sign, state.difficulty)
        IN  /\ filterByDifficulty(pool, state.difficulty) = SelectSeq(pool, Kept)
            /\ \A i \in 1..Len(state.quizSigns) :
                  InBand(state.quizSigns[i], state.difficulty)

\* a selection of medium difficulty from last session's misses that holds
\* A2, the sign without a difficulty, and leaves signs of the pool out
C33_Witness ==
    /\ SelectedIn("missed")
    /\ state.difficulty = "medium"
    /\ "A2" \in Ids(state.quizSigns)
    /\ Len(Candidates(state)) < Len(CategoryCandidates(state.selectedCategories))

\* C34: in 'standard' mode the selected list has exactly
\* min(questionsPerQuiz, pool size) signs, all of the pool and no id twice;
\* startQuiz returns true when the list is not empty, and a pool of exactly
\* questionsPerQuiz signs is selected whole
C34_StandardSize ==
    SelectedIn("standard") =>
        LET pool == Candidates(state)
            selected == state.quizSigns
        IN  /\ Len(selected) = Min(state.questionsPerQuiz, Len(pool))
            /\ \A i, j \in 1..Len(selected) :
                   selected[i].id = selected[j].id => i = j
            /\ \A i \in 1..Len(selected) :
                   \E k \in 1..Len(pool) : selected[i] = pool[k]
            /\ lastCall.value = (Len(selected) > 0)
            /\ Len(pool) = state.questionsPerQuiz =>
                   /\ Ids(selected) = Ids(pool)
                   /\ lastCall.value = TRUE

\* the pool has as many signs as the quiz asks for, they are all selected,
\* in another order than the pool's
C34_Witness ==
    /\ SelectedIn("standard")
    /\ Len(Candidates(state)) = state.questionsPerQuiz
    /\ state.questionsPerQuiz = MaxCount
    /\ Ids(state.quizSigns) = Ids(Candidates(state))
    /\ state.quizSigns # Candidates(state)
    /\ lastCall.value = TRUE

(***************************************************************************)
(* Claims about the mastery level and the due test.                        *)
(***************************************************************************)
\* the level of a retention score, the thresholds as intervals of integers
LevelOfScore(score) ==
    CASE score >= 90 -> "master"
      [] score \in 70..89 -> "proficient"
      [] score \in 50..69 -> "learning"
      [] score \in 25..49 -> "beginner"
      [] OTHER -> "new"

\* C35: every call of getMasteryLevel returns the level of the record's
\* retention score (>= 90 master, >= 70 proficient, >= 50 learning,
\* >= 25 beginner, otherwise new); an absent record or one with no attempt
\* has score 0 and level new; a second call on the same record returns the
\* same level, and no call changes the record
C35_MasteryLevel ==
    [][probe'.fn = "getMasteryLevel" /\ probe' # probe =>
          LET record == probe.args[1]
              score == getRetentionScore(record)
              levels == probe'.result
          IN  /\ probe'.args = probe.args
              /\ Len(levels) = Len(probe.result) + 1
              /\ \A i \in 1..Len(levels) : levels[i] = LevelOfScore(score)
              /\ (record = Undefined \/ record.totalAttempts = 0) =>
                     score = 0 /\ levels[Len(levels)] = "new"]_vars

\* two calls on a record whose score is the threshold 70 exactly
C35_Witness ==
    /\ probe.fn = "getMasteryLevel"
    /\ getRetentionScore(probe.args[1]) = 70
    /\ probe.result = <<"proficient", "proficient">>

\* C36: isDueForReview returns true for an absent record; for a record it
\* returns true exactly when the clock has reached nextReviewDate, the
\* moment nextReviewDate itself included
C36_DueForReview ==
    Returned("isDueForReview") =>
        LET record == probe.args[1]
        IN  /\ record = Undefined => probe.result = TRUE
            /\ record # Undefined =>
                   /\ now < record.nextReviewDate => probe.result = FALSE
                   /\ now = record.nextReviewDate => probe.result = TRUE
                   /\ now > record.nextReviewDate => probe.result = TRUE

\* the call at the very moment of the review date
C36_Witness ==
    /\ Returned("isDueForReview")
    /\ probe.args[1] # Undefined
    /\ probe.args[1].nextReviewDate = now
    /\ now > 0
    /\ probe.result = TRUE

(***************************************************************************)
(* Claims about the record updateWithSM2 stores.                           *)
(***************************************************************************)
\* C37: the quality updateWithSM2 stores for an answer is responseToQuality
\* of the answer's time and the average stored before the call (3000 ms
\* when the call creates the record); the average stored after the call is
\* (that average * (totalAttempts - 1) + the answer's time) / totalAttempts,
\* totalAttempts being the incremented count
C37_QualityFromStoredAverage ==
    [][\A s \in SignIds :
          callCount'[s] = callCount[s] + 1 =>
              LET prevAvg == IF HasProgress(s)
                             THEN signProgress[s].averageResponseTime
                             ELSE RInt(3000)
                  stored == signProgress'[s]
                  isCorrect == correctCount'[s] = correctCount[s] + 1
              IN  /\ stored.totalAttempts = callCount[s] + 1
                  /\ \E responseTime \in ResponseTimes :
                         /\ stored.averageResponseTime =
                                RDiv(RAdd(RMul(prevAvg, RInt(stored.totalAttempts - 1)),
                                          RInt(responseTime)),
                                     RInt(stored.totalAttempts))
                         /\ stored.lastQuality =
                                responseToQuality(isCorrect, responseTime, prevAvg)]_vars

\* a correct answer in 2000 ms after one in 5000 ms: 2000 is under half of
\* the stored 5000 (quality 5) and over half of the new average 3500
C37_Witness ==
    \E s \in SignIds :
        /\ HasProgress(s)
        /\ signProgress[s].totalAttempts = 2
        /\ signProgress[s].averageResponseTime = RInt(3500)
        /\ signProgress[s].lastQuality = 5

\* C39: every record in the store has interval >= 1 and a nextReviewDate
\* that is its lastAttemptDate plus the interval, so at least one day
\* later; a record written at this moment is not due for review
C39_NeverDueAtOnce ==
    \A p \in Stored :
        /\ p.interval >= 1
        /\ p.nextReviewDate = p.lastAttemptDate + p.interval
        /\ p.nextReviewDate >= p.lastAttemptDate + 1
        /\ p.lastAttemptDate = now => ~isDueForReview(p)

\* a record answered a second time, on a later day than the first, with
\* the shortest interval
C39_Witness ==
    \E p \in Stored :
        /\ p.totalAttempts = 2
        /\ now > 0
        /\ p.lastAttemptDate = now
        /\ p.interval = 1
        /\ p.nextReviewDate = now + 1
        /\ ~isDueForReview(p)

(***************************************************************************)
(* Claims about the size of the selected list and a failed start.          *)
(***************************************************************************)
\* C38: in every mode the list selectQuizSigns returns has at most
\* questionsPerQuiz signs
C38_AtMostCount ==
    Selected => Len(state.quizSigns) <= state.questionsPerQuiz

\* two values of a time field, a number or null, are the same: compared as
\* written, a number and null being values of different kinds
SameTime(a, b) == ToString(a) = ToString(b)

\* the session fields of two state objects are the same
SameSession(st, before) ==
    /\ st.quizSigns = before.quizSigns
    /\ st.currentQuestion = before.currentQuestion
    /\ st.correctAnswers = before.correctAnswers
    /\ st.streak = before.streak
    /\ st.wrongAnswers = before.wrongAnswers
    /\ SameTime(st.quizStartTime, before.quizStartTime)
    /\ SameTime(st.quizEndTime, before.quizEndTime)

\* C40: a startQuiz that returns false, for an empty category list or for
\* an empty selected list, leaves quizSigns, currentQuestion,
\* correctAnswers, streak, wrongAnswers, quizStartTime and quizEndTime as
\* they were before the call (a step is one that changes the call record or
\* any other variable)
C40_FailedStartKeepsSession ==
    [][lastCall'.op = "startQuiz" /\ lastCall'.value = FALSE =>
          SameSession(state', state)]_<<lastCall, vars>>

====
